---------------------------- MODULE Spec2Model ----------------------------
(***************************************************************************)
(* NETRUNNER (src/hacker_game.py): the attack / trace / heat /             *)
(* investigation state machine, the leveling loop and the exploit          *)
(* success-rate formula.                                                   *)
(*                                                                         *)
(* Number representation.  The program computes with Python floats; the    *)
(* model uses exact fixed-point integers:                                  *)
(*   - probabilities and rates: units of 1/100000 (RateOne = 1.0);         *)
(*   - "centi" quantities (success_rate_base, severity, quality): 1/100;   *)
(*   - hardware bonus, tool effectiveness, event multiplier: 1/10;         *)
(*   - trace_progress and trace_speed: units of 1/1000 percent.            *)
(* A draw "random.random() < p" is the nondeterministic choice Roll(p):    *)
(* both outcomes when 0 < p < 1, only failure when p <= 0, only success    *)
(* when p >= 1.                                                            *)
(***************************************************************************)
EXTENDS Integers, Sequences, FiniteSets, TLC

VARIABLES
    player,     \* PlayerState (src 334-360)
    nodes,      \* ProceduralNetwork.nodes: uid -> NetworkNode (src 289-315)
    contracts,  \* GameState.contracts (src 953)
    rivals,     \* GameState.rival_hackers (src 957)
    pc,         \* the interface's position: which menu / loop waits for input
    steps,      \* number of state-changing handler invocations so far
    obs         \* observation record of the operation under check

vars == <<player, nodes, contracts, rivals, pc, steps, obs>>

Max(a, b) == IF a >= b THEN a ELSE b
Min(a, b) == IF a <= b THEN a ELSE b

(***************************************************************************)
(* GameConstants (src 24-126)                                              *)
(***************************************************************************)
STARTING_CREDITS == 1000
STARTING_LEVEL == 1
MAX_SKILL_LEVEL == 10
EXP_PER_LEVEL_MULTIPLIER == 100
RateOne == 1000 * 100                  \* 1.0 as a rate
BASE_EXPLOIT_SUCCESS_RATE == 5000      \* 0.05
MAX_EXPLOIT_SUCCESS_RATE == 98000      \* 0.98
SKILL_SUCCESS_BONUS == 5               \* 0.05, centi
TOOL_SUCCESS_BONUS == 1                \* 0.1 per unit of effectiveness: tenths -> centi
PATCH_PENALTY == 3                     \* 0.03, centi
TRACE_COMPLETE_THRESHOLD == 100
TRACE_HEAT_INCREASE == 15
TRACE_IDENTITY_HEAT_INCREASE == 10
TRACE_PENALTY_MIN == 100
TRACE_PENALTY_MAX == 500
INVESTIGATION_START_THRESHOLD == 50
STEALTH_SKILL_BONUS == 5               \* 0.05, centi
PROXY_CHAIN_BONUS == 10                \* 0.1, centi
BOUNCE_NODE_BONUS == 12                \* 0.12, centi
MAX_STEALTH_REDUCTION == 90            \* 0.9, centi
DDOS_TRACE_INCREASE == 25
DDOS_HEAT_INCREASE == 3
BOTNET_BUILD_COST == 2000
PROXY_BASE_COST == 1000
PROXY_COST_INCREMENT == 500
PHISHING_SUCCESS_TRACE == 5
PHISHING_FAIL_TRACE == 15
PHISHING_FAIL_HEAT == 2
INVESTIGATION_ASSET_LOSS_PERCENT == 7  \* 0.7, tenths
INVESTIGATION_REP_LOSS == 100
INVESTIGATION_TOOLS_LOST == 3
INVESTIGATION_RESET_HEAT == 20
LAUNDER_COST == 2000
LAUNDER_IDENTITY_REDUCTION == 15
LAUNDER_INVESTIGATION_REDUCTION == 5
ADMIN_ACTIVATE_THRESHOLD == 40
MAX_ACTIVE_EVENTS == 2

(***************************************************************************)
(* Catalogs                                                                *)
(***************************************************************************)
\* PlayerSkills field names, in the order check_level_up lists them
SkillNames ==
    << "scanning", "exploitation", "stealth", "cryptanalysis",
       "social_engineering", "reverse_engineering", "botnet_management" >>

\* PlayerSkills() defaults
StartingSkills ==
    [ scanning |-> 1, exploitation |-> 1, stealth |-> 1, cryptanalysis |-> 1,
      social_engineering |-> 1, reverse_engineering |-> 1,
      botnet_management |-> 1 ]

\* BlackMarket.generate_tools: tool_type, cost, effectiveness (tenths),
\* level_requirement
ToolCatalog ==
    [ PortScannerPro |->
        [tool_type |-> "scanner", cost |-> 500, effectiveness |-> 15, level_requirement |-> 1],
      ExploitKit |->
        [tool_type |-> "exploit_framework", cost |-> 2000, effectiveness |-> 18, level_requirement |-> 2],
      MetaSploitPro |->
        [tool_type |-> "exploit_framework", cost |-> 5000, effectiveness |-> 25, level_requirement |-> 5],
      ProxyChainAdvanced |->
        [tool_type |-> "proxy_chain", cost |-> 1000, effectiveness |-> 10, level_requirement |-> 2],
      CryptoBreaker |->
        [tool_type |-> "cryptanalysis", cost |-> 4000, effectiveness |-> 20, level_requirement |-> 4],
      DeepRootkit |->
        [tool_type |-> "rootkit", cost |-> 5000, effectiveness |-> 20, level_requirement |-> 5] ]

ToolNames == DOMAIN ToolCatalog

\* VulnerabilityDatabase templates: severity and success_rate_base in centi,
\* discovery_difficulty in tenths, firewall_damage as (lo, hi)
VulnTemplates ==
    [ sql_injection |->
        [severity |-> 70, patch_level |-> 2, discovery_difficulty |-> 3, dmg_lo |-> 15, dmg_hi |-> 30,
         trace_cost |-> 8, success_rate_base |-> 65, requires_tool |-> "none"],
      buffer_overflow |->
        [severity |-> 90, patch_level |-> 5, discovery_difficulty |-> 7, dmg_lo |-> 25, dmg_hi |-> 50,
         trace_cost |-> 15, success_rate_base |-> 45, requires_tool |-> "exploit_framework"],
      cross_site_scripting |->
        [severity |-> 50, patch_level |-> 1, discovery_difficulty |-> 2, dmg_lo |-> 10, dmg_hi |-> 20,
         trace_cost |-> 5, success_rate_base |-> 75, requires_tool |-> "none"],
      zero_day |->
        [severity |-> 100, patch_level |-> 10, discovery_difficulty |-> 9, dmg_lo |-> 50, dmg_hi |-> 100,
         trace_cost |-> 25, success_rate_base |-> 25, requires_tool |-> "exploit_framework"],
      supply_chain |->
        [severity |-> 85, patch_level |-> 6, discovery_difficulty |-> 8, dmg_lo |-> 35, dmg_hi |-> 70,
         trace_cost |-> 18, success_rate_base |-> 40, requires_tool |-> "none"] ]

\* A Vulnerability instance of template t with the given patch_level
\* (generate_vulnerabilities: severity and patch jitter are drawn by callers)
Vulnerability(t, severity, patch) ==
    [ exploit_type |-> t, severity |-> severity, patch_level |-> patch,
      discovery_difficulty |-> VulnTemplates[t].discovery_difficulty,
      dmg_lo |-> VulnTemplates[t].dmg_lo, dmg_hi |-> VulnTemplates[t].dmg_hi,
      trace_cost |-> VulnTemplates[t].trace_cost,
      success_rate_base |-> VulnTemplates[t].success_rate_base,
      requires_tool |-> VulnTemplates[t].requires_tool ]

\* BlackMarket.generate_hardware and GameState.__init__: bonus in tenths
HardwareBonus ==
    [ CPU |-> {10, 20, 40}, RAM |-> {10, 15, 22},
      Storage |-> {10, 15}, Cooling |-> {10, 13, 20} ]

StartingHardware == [CPU |-> 10, RAM |-> 10, Storage |-> 10, Cooling |-> 10]

\* DynamicEventManager.generate_event: multiplier in tenths
EventMultiplier ==
    [ global_patch |-> 7, police_crackdown |-> 15, zero_day_leak |-> 13,
      network_worm |-> 8 ]

EventTypes == DOMAIN EventMultiplier

WorldEvent(t, d) == [etype |-> t, duration |-> d, multiplier |-> EventMultiplier[t]]

(***************************************************************************)
(* Helpers                                                                 *)
(***************************************************************************)
\* random.random() < p, p in units of 1/RateOne
Roll(p) == {b \in BOOLEAN : (b /\ p > 0) \/ (~b /\ p < RateOne)}

RECURSIVE SumOver(_, _)
\* sum of f[x] over the finite set S
SumOver(S, f) ==
    IF S = {} THEN 0
    ELSE LET x == CHOOSE y \in S : TRUE IN f[x] + SumOver(S \ {x}, f)

\* total effectiveness (tenths) of the owned tools of one type
ToolBonus(p, ttype) ==
    SumOver({t \in p.inventory : ToolCatalog[t].tool_type = ttype},
            [t \in ToolNames |-> ToolCatalog[t].effectiveness])

RECURSIVE EventMult(_, _, _)
\* product (per mille) of the multipliers of the active events whose type is in types
EventMult(events, types, acc) ==
    IF events = << >> THEN acc
    ELSE EventMult(Tail(events), types,
                   IF Head(events).etype \in types
                   THEN (acc * Head(events).multiplier) \div 10
                   ELSE acc)

(***************************************************************************)
(* GameInterface.calculate_success_rate (src 1490-1513), in 1/RateOne      *)
(***************************************************************************)
\* the formula with the skill and tool bonuses subtracted instead of added
RawSuccessRate_bonus_subtracted(vuln, p) ==
    LET event_mult == EventMult(p.active_events, {"global_patch", "zero_day_leak"}, 1000)
    IN (vuln.success_rate_base
          - p.skills.exploitation * SKILL_SUCCESS_BONUS
          - ToolBonus(p, "exploit_framework") * TOOL_SUCCESS_BONUS
          + (p.hardware.CPU - 10) * 2 + (p.hardware.RAM - 10) * 1) * event_mult
         - vuln.patch_level * PATCH_PENALTY * 1000

\* the formula reading the scanning skill instead of the exploitation skill
RawSuccessRate_wrong_skill(vuln, p) ==
    LET event_mult == EventMult(p.active_events, {"global_patch", "zero_day_leak"}, 1000)
    IN (vuln.success_rate_base
          + p.skills.scanning * SKILL_SUCCESS_BONUS
          + ToolBonus(p, "exploit_framework") * TOOL_SUCCESS_BONUS
          + (p.hardware.CPU - 10) * 2 + (p.hardware.RAM - 10) * 1) * event_mult
         - vuln.patch_level * PATCH_PENALTY * 1000

RawSuccessRate(vuln, p) ==
    LET base == vuln.success_rate_base
        skill_bonus == p.skills.exploitation * SKILL_SUCCESS_BONUS
        patch_penalty == vuln.patch_level * PATCH_PENALTY
        tool_bonus == ToolBonus(p, "exploit_framework") * TOOL_SUCCESS_BONUS
        cpu_bonus == (p.hardware.CPU - 10) * 2
        ram_bonus == (p.hardware.RAM - 10) * 1
        event_mult == EventMult(p.active_events, {"global_patch", "zero_day_leak"}, 1000)
    IN (base + skill_bonus + tool_bonus + cpu_bonus + ram_bonus) * event_mult
         - patch_penalty * 1000

\* the rate returned without the max / min clamp of src 1513
calculate_success_rate_unclamped(vuln, p) == RawSuccessRate(vuln, p)

calculate_success_rate(vuln, p) ==
    Max(BASE_EXPLOIT_SUCCESS_RATE, Min(MAX_EXPLOIT_SUCCESS_RATE, RawSuccessRate(vuln, p)))


(***************************************************************************)
(* GameInterface.check_level_up (src 2807-2839)                            *)
(***************************************************************************)
ExpNeeded(level) == level * EXP_PER_LEVEL_MULTIPLIER

\* the skill-choice prompt of one level-up: choice is the number typed, with 0
\* standing for any non-numeric input (ValueError -> pass)
ApplySkillChoice(skills, choice) ==
    IF choice >= 1 /\ choice <= Len(SkillNames)
       /\ skills[SkillNames[choice]] < MAX_SKILL_LEVEL
    THEN [skills EXCEPT ![SkillNames[choice]] = @ + 1]
    ELSE skills

\* one iteration that clears the experience instead of carrying the excess over
LevelUpOnce_excess_dropped(p, choice) ==
    [p EXCEPT !.experience = 0,
              !.level = @ + 1,
              !.skills = ApplySkillChoice(@, choice)]

\* one iteration of the while loop: consume the threshold, raise the level,
\* prompt once
LevelUpOnce(p, choice) ==
    [p EXCEPT !.experience = @ - ExpNeeded(p.level),
              !.level = @ + 1,
              !.skills = ApplySkillChoice(@, choice)]

RECURSIVE LevelsDue(_, _)
\* the number of iterations the loop runs from level with experience exp
LevelsDue(level, exp) ==
    IF exp >= ExpNeeded(level)
    THEN 1 + LevelsDue(level + 1, exp - ExpNeeded(level))
    ELSE 0

RECURSIVE check_level_up(_, _)
\* the whole loop, the prompts answered by the sequence choices
check_level_up(p, choices) ==
    IF p.experience >= ExpNeeded(p.level) /\ choices # << >>
    THEN check_level_up(LevelUpOnce(p, Head(choices)), Tail(choices))
    ELSE p

(***************************************************************************)
(* The network (ProceduralNetwork, src 515-718), at a reduced scale:       *)
(* three hosts, one service each.  Every attribute is derived as           *)
(* _create_node derives it from the drawn security rating.                 *)
(***************************************************************************)
Nodes == {"n1", "n2", "n3"}

TraceUnit == 10 * 100                 \* 1 percent of trace, in model units

\* _create_node: firewall, data value, trace speed, SIEM from the security
\* rating and the drawn factors
CreateNode(security, fw_factor, value_factor, vulns, honeypots, employees, conns) ==
    [ security_rating |-> security,
      firewall_strength |-> security * fw_factor,
      max_firewall |-> security * fw_factor,
      services |-> << [vulnerabilities |-> vulns] >>,
      discovered_services |-> {},
      discovered_vulns |-> {},
      compromised |-> FALSE,
      data_value |-> security * value_factor,
      trace_progress |-> 0,
      trace_speed |-> 500 + security * 300,
      connections |-> conns,
      honeypots |-> IF security >= 5 THEN honeypots ELSE << >>,
      has_siem |-> security >= 6,
      admin_active |-> FALSE,
      backdoor_installed |-> FALSE,
      employees |-> employees ]

\* EmployeeGenerator.generate_employees: access_level 1..5, susceptibility and
\* social-media activity in centi
Employee(access, activity, susceptibility) ==
    [ access_level |-> access, social_media_activity |-> activity,
      phishing_susceptibility |-> susceptibility, compromised |-> FALSE ]

Honeypot(trace) == [trace_increase |-> trace]

\* generate_network + _establish_connections for the reduced network:
\* n1 - n2 - n3, symmetric
SampleNetwork(fw_factor) ==
    [ n1 |-> CreateNode(1, fw_factor, 500,
                << Vulnerability("cross_site_scripting", 50, 1),
                   Vulnerability("supply_chain", 85, 6) >>,
                << >>,
                << Employee(5, 70, 50), Employee(1, 40, 30) >>,
                << "n2" >>),
      n2 |-> CreateNode(2, fw_factor, 300,
                << Vulnerability("sql_injection", 75, 2),
                   Vulnerability("buffer_overflow", 90, 5) >>,
                << >>,
                << Employee(4, 80, 60) >>,
                << "n1", "n3" >>),
      n3 |-> CreateNode(5, fw_factor, 100,
                << Vulnerability("zero_day", 100, 10) >>,
                << Honeypot(30) >>,
                << Employee(2, 50, 40) >>,
                << "n2" >>) ]

RECURSIVE SeqToSet(_)
SeqToSet(s) == IF s = << >> THEN {} ELSE {Head(s)} \cup SeqToSet(Tail(s))

(***************************************************************************)
(* GameState.__init__ (src 916-978)                                        *)
(***************************************************************************)
NewPlayer ==
    [ level |-> STARTING_LEVEL, experience |-> 0, credits |-> STARTING_CREDITS,
      reputation |-> 0, heat_level |-> 0, skills |-> StartingSkills,
      discovered_nodes |-> {}, compromised_nodes |-> {},
      current_location |-> "", inventory |-> {}, active_contracts |-> {},
      botnets |-> << >>, identity_heat |-> 0, proxy_chains |-> 0,
      under_investigation |-> FALSE, investigation_progress |-> 0,
      hardware |-> StartingHardware, active_events |-> << >>,
      bounced_nodes |-> << >>, known_exploits |-> {} ]

\* ContractGenerator.generate_contract: reward = int(data_value * mult),
\* reputation_change = security * 5
Contract(net, target, objective, mult_tenths) ==
    [ target_node_uid |-> target, objective |-> objective,
      reward |-> (net[target].data_value * mult_tenths) \div 10,
      reputation_change |-> net[target].security_rating * 5,
      completed |-> FALSE ]

\* RivalGenerator.generate_rival
RivalHacker(skill) == [skill_level |-> skill, active_targets |-> << >>, hostile |-> FALSE]

\* the entry nodes: security_rating <= 2
EntryNodes(net) == {n \in DOMAIN net : net[n].security_rating <= 2}

NoObs == [op |-> "none"]

Init ==
    \E fw_factor \in {80}, rskill \in {1}, objective \in {"steal_data"} :
      LET net == SampleNetwork(fw_factor) IN
      \E start \in EntryNodes(net), target \in {n \in Nodes : net[n].security_rating <= STARTING_LEVEL + 3} :
        /\ nodes = net
        /\ player = [NewPlayer EXCEPT !.current_location = start,
                                      !.discovered_nodes = {start}]
        /\ contracts = << Contract(net, target, objective,
                                   IF objective = "steal_data" THEN 12 ELSE 8) >>
        /\ rivals = << RivalHacker(rskill) >>
        /\ pc = "top"
        /\ steps = 0
        /\ obs = NoObs


(***************************************************************************)
(* Level-up prompts inside a handler: every way of answering the prompts   *)
(* that check_level_up issues for player p                                 *)
(***************************************************************************)
\* the answers explored at a prompt inside the game: 0 = non-numeric input,
\* 2 = exploitation, 3 = stealth
PromptAnswers == {0, 2, 3}

LevelUpOutcomes(p) ==
    LET k == LevelsDue(p.level, p.experience) IN
    {check_level_up(p, ch) : ch \in [1..k -> PromptAnswers]}

GainExperience(p, amount) == [p EXCEPT !.experience = @ + amount]

(***************************************************************************)
(* Background ticks, run at the top of every main-menu iteration           *)
(***************************************************************************)
\* GameState.update_rival_activity (src 1119-1133): the set of possible
\* <<rivals, nodes>> after rivals i.. have acted in order
RECURSIVE update_rival_activity(_, _, _)
update_rival_activity(i, rv, net) ==
    IF i > Len(rv) THEN {<<rv, net>>}
    ELSE
      LET available == {n \in DOMAIN net :
                          ~net[n].compromised
                          /\ net[n].security_rating <= rv[i].skill_level + 2}
          idle == update_rival_activity(i + 1, rv, net)
          act(target, comp) ==
            update_rival_activity(i + 1,
                [rv EXCEPT ![i].active_targets = Append(@, target)],
                IF comp THEN [net EXCEPT ![target].compromised = TRUE] ELSE net)
      IN idle \cup UNION {act(t, c) : t \in available, c \in BOOLEAN}

RECURSIVE PatchVulns(_, _)
\* vuln.patch_level += 1 for the vulnerabilities ids = {<<service, index>>}
PatchVulns(node, ids) ==
    IF ids = {} THEN node
    ELSE LET id == CHOOSE x \in ids : TRUE IN
         PatchVulns([node EXCEPT !.services[id[1]].vulnerabilities[id[2]].patch_level = @ + 1],
                    ids \ {id})

\* the <<service index, vulnerability index>> pairs of a node
VulnIds(node) ==
    UNION {{<<i, j>> : j \in 1..Len(node.services[i].vulnerabilities)} :
             i \in 1..Len(node.services)}

\* GameState.update_admin_response (src 1135-1149) for one node: the set of
\* possible node states
AdminResponseNode(node) ==
    IF node.admin_active /\ ~node.compromised
    THEN {[PatchVulns(node, ids) EXCEPT !.trace_speed =
                IF boost THEN (@ * 15) \div 10 ELSE @] :
            ids \in SUBSET VulnIds(node),
            boost \in {b \in BOOLEAN : b => node.trace_progress > 30 * TraceUnit}}
    ELSE {node}

update_admin_response(net) ==
    {f \in [DOMAIN net -> UNION {AdminResponseNode(net[n]) : n \in DOMAIN net}] :
        \A n \in DOMAIN net : f[n] \in AdminResponseNode(net[n])}

\* the durations generate_event draws from, per event type (the two ends of
\* the randint range)
EventDurations ==
    [ global_patch |-> {12, 48}, police_crackdown |-> {24, 72},
      zero_day_leak |-> {6, 24}, network_worm |-> {12, 36} ]

RECURSIVE AgeEvents(_)
\* duration -= 1 on every event, dropping the expired ones
AgeEvents(events) ==
    IF events = << >> THEN << >>
    ELSE LET e == [Head(events) EXCEPT !.duration = @ - 1] IN
         IF e.duration <= 0 THEN AgeEvents(Tail(events))
         ELSE << e >> \o AgeEvents(Tail(events))

\* the tick without the len(active_events) < MAX_ACTIVE_EVENTS test of src 994
update_dynamic_events_unlimited(events) ==
    LET aged == AgeEvents(events) IN
    {aged} \cup
    UNION {{Append(aged, WorldEvent(t, d)) : d \in EventDurations[t]} : t \in EventTypes}

\* the tick expiring an event only when its duration has fallen below 0
update_dynamic_events_late_expiry(events) ==
    LET less == [i \in DOMAIN events |-> [events[i] EXCEPT !.duration = @ - 1]]
        aged == SelectSeq(less, LAMBDA e : e.duration >= 0)
    IN {aged} \cup
       (IF Len(aged) < MAX_ACTIVE_EVENTS
        THEN UNION {{Append(aged, WorldEvent(t, d)) : d \in EventDurations[t]} : t \in EventTypes}
        ELSE {})

\* GameState.update_dynamic_events (src 980-997): the possible event lists
update_dynamic_events(events) ==
    LET aged == AgeEvents(events) IN
    {aged} \cup
    (IF Len(aged) < MAX_ACTIVE_EVENTS
     THEN UNION {{Append(aged, WorldEvent(t, d)) : d \in EventDurations[t]} : t \in EventTypes}
     ELSE {})

(***************************************************************************)
(* GameInterface.handle_investigation_complete (src 1237-1274)             *)
(***************************************************************************)
\* the credits below 1290 for which the float product credits * 0.7 falls
\* just short of the integer 7 * credits / 10, so that int() yields one less
FloatRoundsDown ==
    {90, 170, 180, 330, 340, 350, 360, 650, 660, 670, 680, 690, 700, 710, 720, 730}

\* asset_loss = int(credits * 0.7)
AssetLoss(credits) ==
    (credits * INVESTIGATION_ASSET_LOSS_PERCENT) \div 10
      - (IF credits \in FloatRoundsDown THEN 1 ELSE 0)

\* credits after the seizure
SeizeCredits(credits) == Max(100, credits - AssetLoss(credits))

\* the tool sets random.sample may confiscate
LostToolSets(inventory) ==
    {L \in SUBSET inventory :
        Cardinality(L) = Min(Cardinality(inventory), INVESTIGATION_TOOLS_LOST)}

\* the seizure confiscating the whole inventory instead of the sampled tools
handle_investigation_complete_inventory_cleared(p, lost) ==
    [p EXCEPT !.credits = SeizeCredits(@),
              !.reputation = Max(0, @ - INVESTIGATION_REP_LOSS),
              !.inventory = {},
              !.botnets = << >>,
              !.under_investigation = FALSE,
              !.investigation_progress = 0,
              !.heat_level = INVESTIGATION_RESET_HEAT]

handle_investigation_complete(p, lost) ==
    [p EXCEPT !.credits = SeizeCredits(@),
              !.reputation = Max(0, @ - INVESTIGATION_REP_LOSS),
              !.inventory = @ \ lost,
              !.botnets = << >>,
              !.under_investigation = FALSE,
              !.investigation_progress = 0,
              !.heat_level = INVESTIGATION_RESET_HEAT]

\* the check of src 1190-1194 with a draw that may add nothing
InvestigationTick_may_stall(p) ==
    IF p.under_investigation
    THEN UNION {
           LET q == [p EXCEPT !.investigation_progress = @ + inc] IN
           IF q.investigation_progress >= TRACE_COMPLETE_THRESHOLD * TraceUnit
           THEN {handle_investigation_complete(q, lost) : lost \in LostToolSets(q.inventory)}
           ELSE {q}
           : inc \in {0, 500}}
    ELSE {p}

\* main_menu, src 1190-1194: the investigation advances by uniform(0.1, 0.5)
InvestigationTick(p) ==
    IF p.under_investigation
    THEN UNION {
           LET q == [p EXCEPT !.investigation_progress = @ + inc] IN
           IF q.investigation_progress >= TRACE_COMPLETE_THRESHOLD * TraceUnit
           THEN {handle_investigation_complete(q, lost) : lost \in LostToolSets(q.inventory)}
           ELSE {q}
           : inc \in {100, 500}}
    ELSE {p}

(***************************************************************************)
(* main_menu (src 1173-1235)                                               *)
(***************************************************************************)
MaxSteps == 3

Budget == steps < MaxSteps

\* a handler invocation that changed the game state uses one unit of budget
Count ==
    steps' = IF <<player', nodes', contracts', rivals'>> = <<player, nodes, contracts, rivals>>
             THEN steps ELSE steps + 1

\* top of the loop, src 1186: update_rival_activity
TickRivals ==
    /\ pc = "top"
    /\ Budget
    /\ \E rn \in update_rival_activity(1, rivals, nodes) :
         /\ rivals' = rn[1]
         /\ nodes' = rn[2]
    /\ pc' = "tick_admin"
    /\ UNCHANGED <<player, contracts, obs>>
    /\ Count

\* src 1187: update_admin_response
TickAdmin ==
    /\ pc = "tick_admin"
    /\ Budget
    /\ \E net \in update_admin_response(nodes) : nodes' = net
    /\ pc' = "tick_events"
    /\ UNCHANGED <<player, contracts, rivals, obs>>
    /\ Count

\* src 1188-1194: update_dynamic_events and the investigation check, then
\* the menu waits for input
TickEvents ==
    /\ pc = "tick_events"
    /\ Budget
    /\ \E ev \in update_dynamic_events(player.active_events) :
         \E p \in InvestigationTick([player EXCEPT !.active_events = ev]) :
           player' = p
    /\ pc' = "main"
    /\ UNCHANGED <<nodes, contracts, rivals, obs>>
    /\ Count

\* the submenus a main-menu choice opens
SubMenus == {"network", "contract", "market", "social"}

MainMenuChoose ==
    /\ pc = "main"
    /\ \E m \in SubMenus \cup {"top"} : pc' = m     \* "top": status screens, save, invalid input
    /\ UNCHANGED <<player, nodes, contracts, rivals, steps, obs>>

\* "Back" in a submenu returns to the top of the main loop
MenuBack ==
    /\ pc \in SubMenus
    /\ pc' = "top"
    /\ UNCHANGED <<player, nodes, contracts, rivals, steps, obs>>

(***************************************************************************)
(* The attack resolver.  A "world" w = [p, n, c] is the player, the node   *)
(* under attack and the contract list; the resolver operators map a world  *)
(* to the set of worlds the random draws and the inputs can produce.       *)
(***************************************************************************)
World(p, n, c) == [p |-> p, n |-> n, c |-> c]

AddTrace(node, percent) == [node EXCEPT !.trace_progress = @ + percent * TraceUnit]

\* firewall_strength -= damage
DamageFirewall(node, damage) == [node EXCEPT !.firewall_strength = @ - damage]

\* damage = int(int(randint * (1 + exploitation * 0.1)) * cpu_bonus)
ExploitDamage(p, drawn) ==
    (((drawn * (10 + p.skills.exploitation)) \div 10) * p.hardware.CPU) \div 10

HasToolOfType(p, ttype) == \E t \in p.inventory : ToolCatalog[t].tool_type = ttype

\* GameInterface.execute_exploit (src 1515-1551) on vulnerability id
execute_exploit(w, id) ==
    LET vuln == w.n.services[id[1]].vulnerabilities[id[2]]
        success_rate == calculate_success_rate(vuln, w.p)
        bypass_failed == {World(w.p, AddTrace(w.n, 10), w.c)}
        landed ==
          UNION {
            {World(q, DamageFirewall(w.n, ExploitDamage(w.p, drawn)), w.c) :
               q \in LevelUpOutcomes(GainExperience(w.p, vuln.severity \div 10))}
            : drawn \in {vuln.dmg_lo, vuln.dmg_hi}}
        failed ==
          {World(w.p,
                 [AddTrace(w.n, vuln.trace_cost) EXCEPT
                    !.services[id[1]].vulnerabilities[id[2]].patch_level =
                        IF patched THEN @ + 1 ELSE @],
                 w.c)
            : patched \in {b \in BOOLEAN : b => w.n.admin_active}}
    IN UNION {
         IF hit
         THEN (IF vuln.severity > 70 THEN bypass_failed ELSE {}) \cup landed
         ELSE failed
         : hit \in Roll(success_rate)}

\* GameInterface.use_botnet_ddos (src 1553-1588); idx = the number typed - 1
use_botnet_ddos(w, idx) ==
    IF w.p.botnets # << >> /\ 0 <= idx /\ idx < Len(w.p.botnets)
    THEN LET botnet == w.p.botnets[idx + 1]
             damage == (botnet.ddos_power * botnet.quality) \div 100
             q == [GainExperience(w.p, 15) EXCEPT !.heat_level = @ + DDOS_HEAT_INCREASE]
         IN {World(q2, AddTrace(DamageFirewall(w.n, damage), DDOS_TRACE_INCREASE), w.c) :
               q2 \in LevelUpOutcomes(q)}
    ELSE {w}

\* GameInterface.clear_traces (src 1590-1604)
clear_traces(w) ==
    LET effectiveness == 15 + w.p.skills.stealth * 5 + ToolBonus(w.p, "rootkit") IN
    World(w.p,
          [w.n EXCEPT !.trace_progress = Max(0, @ - effectiveness * TraceUnit)],
          w.c)

\* the stealth reduction of attack_node (src 1461-1472), centi
StealthBonus(p) ==
    p.skills.stealth * STEALTH_SKILL_BONUS
      + (IF p.proxy_chains > 0 THEN p.proxy_chains * PROXY_CHAIN_BONUS ELSE 0)
      + (IF p.bounced_nodes # << >> THEN Len(p.bounced_nodes) * BOUNCE_NODE_BONUS ELSE 0)

\* the stealth bonus applied without the min of src 1472
StealthDiscount_uncapped(p) == StealthBonus(p)

StealthDiscount(p) == Min(MAX_STEALTH_REDUCTION, StealthBonus(p))

\* trace_increase before the stealth reduction (src 1445-1459), in trace units
TraceBeforeStealth(p, node) ==
    LET cooled == (node.trace_speed * 10) \div p.hardware.Cooling
        evented == (cooled * EventMult(p.active_events,
                                       {"police_crackdown", "network_worm"}, 1000)) \div 1000
    IN IF node.has_siem THEN (evented * 15) \div 10 ELSE evented

\* trace_increase of one attempt (src 1445-1472), in trace units
TraceIncrease(p, node) ==
    (TraceBeforeStealth(p, node) * (100 - StealthDiscount(p))) \div 100

\* handle_trace_complete starting the investigation from identity_heat >=
\* INVESTIGATION_START_THRESHOLD on
handle_trace_complete_at_threshold(p) ==
    UNION {
      LET q == [p EXCEPT !.heat_level = @ + TRACE_HEAT_INCREASE,
                         !.identity_heat = @ + TRACE_IDENTITY_HEAT_INCREASE,
                         !.credits = Max(0, @ - penalty)]
      IN {[q EXCEPT !.under_investigation = start] :
            start \in {b \in BOOLEAN :
                         IF q.identity_heat >= INVESTIGATION_START_THRESHOLD
                            /\ ~q.under_investigation
                         THEN TRUE ELSE b = q.under_investigation}}
      : penalty \in {TRACE_PENALTY_MIN, TRACE_PENALTY_MAX}}

\* handle_trace_complete taking the penalty without the max(0, ...) of src 1727
handle_trace_complete_unfloored(p) ==
    UNION {
      LET q == [p EXCEPT !.heat_level = @ + TRACE_HEAT_INCREASE,
                         !.identity_heat = @ + TRACE_IDENTITY_HEAT_INCREASE,
                         !.credits = @ - penalty]
      IN {[q EXCEPT !.under_investigation = start] :
            start \in {b \in BOOLEAN :
                         IF q.identity_heat > INVESTIGATION_START_THRESHOLD
                            /\ ~q.under_investigation
                         THEN TRUE ELSE b = q.under_investigation}}
      : penalty \in {TRACE_PENALTY_MIN, TRACE_PENALTY_MAX}}

\* GameInterface.handle_trace_complete (src 1719-1741)
handle_trace_complete(p) ==
    UNION {
      LET q == [p EXCEPT !.heat_level = @ + TRACE_HEAT_INCREASE,
                         !.identity_heat = @ + TRACE_IDENTITY_HEAT_INCREASE,
                         !.credits = Max(0, @ - penalty)]
      IN {[q EXCEPT !.under_investigation = start] :
            start \in {b \in BOOLEAN :
                         IF q.identity_heat > INVESTIGATION_START_THRESHOLD
                            /\ ~q.under_investigation
                         THEN TRUE ELSE b = q.under_investigation}}
      : penalty \in {TRACE_PENALTY_MIN, TRACE_PENALTY_MAX}}

RECURSIVE CompleteContracts(_, _, _)
\* compromise_node's contract loop (src 1769-1776): <<contracts, credits, reputation>>
CompleteContracts(cs, uid, acc) ==
    IF cs = << >> THEN acc
    ELSE LET c == Head(cs)
             pays == c.target_node_uid = uid /\ ~c.completed
                     /\ c.objective \in {"steal_data", "install_backdoor", "sabotage"}
         IN CompleteContracts(Tail(cs), uid,
              << Append(acc[1], IF pays THEN [c EXCEPT !.completed = TRUE] ELSE c),
                 acc[2] + (IF pays THEN c.reward ELSE 0),
                 acc[3] + (IF pays THEN c.reputation_change ELSE 0) >>)

\* compromise_node without the test of contract.completed of src 1771
compromise_node_repaying(w, uid) ==
    LET extracted_value == (w.n.data_value * w.p.hardware.Storage) \div 10
        pays == {i \in DOMAIN w.c :
                   /\ w.c[i].target_node_uid = uid
                   /\ w.c[i].objective \in {"steal_data", "install_backdoor", "sabotage"}}
        q == [w.p EXCEPT
                !.compromised_nodes = @ \cup {uid},
                !.credits = @ + extracted_value
                              + SumOver(pays, [i \in DOMAIN w.c |-> w.c[i].reward]),
                !.experience = @ + w.n.security_rating * 50,
                !.reputation = @ + w.n.security_rating * 10
                                 + SumOver(pays, [i \in DOMAIN w.c |-> w.c[i].reputation_change]),
                !.discovered_nodes = @ \cup SeqToSet(w.n.connections)]
    IN {World(q2, [w.n EXCEPT !.compromised = TRUE],
              [i \in DOMAIN w.c |-> IF i \in pays THEN [w.c[i] EXCEPT !.completed = TRUE]
                                     ELSE w.c[i]]) : q2 \in LevelUpOutcomes(q)}

\* GameInterface.compromise_node (src 1743-1781) on the node uid
compromise_node(w, uid) ==
    LET extracted_value == (w.n.data_value * w.p.hardware.Storage) \div 10
        done == CompleteContracts(w.c, uid, << << >>, 0, 0 >>)
        q == [w.p EXCEPT
                !.compromised_nodes = @ \cup {uid},
                !.credits = @ + extracted_value + done[2],
                !.experience = @ + w.n.security_rating * 50,
                !.reputation = @ + w.n.security_rating * 10 + done[3],
                !.discovered_nodes = @ \cup SeqToSet(w.n.connections)]
    IN {World(q2, [w.n EXCEPT !.compromised = TRUE], done[1]) : q2 \in LevelUpOutcomes(q)}

(***************************************************************************)
(* GameInterface.attack_node (src 1369-1488)                               *)
(***************************************************************************)
\* the discovered vulnerabilities the attack menu lists (vulns_list)
VulnsList(node) ==
    {id \in VulnIds(node) : (id[1] - 1) \in node.discovered_services
                            /\ id \in node.discovered_vulns}

\* what can be typed at the attack menu
AttackChoices(w) ==
    {<<"exploit", id>> : id \in VulnsList(w.n)}
      \cup {<<"ddos", idx>> : idx \in 0..Len(w.p.botnets)}
      \cup {<<"clear", 0>>, <<"abort", 0>>, <<"invalid", 0>>}

\* the while condition
AttackLoopCondition(node) ==
    node.firewall_strength > 0
      /\ node.trace_progress < TRACE_COMPLETE_THRESHOLD * TraceUnit

\* the accrual followed by an activation that does not look at admin_active
AccrueTrace_reactivates(w) ==
    LET n1 == [w.n EXCEPT !.trace_progress = @ + TraceIncrease(w.p, w.n)]
        may_activate == n1.trace_progress > ADMIN_ACTIVATE_THRESHOLD * TraceUnit
    IN {World(w.p, n1, w.c)} \cup
       (IF may_activate
        THEN {World(w.p, [n1 EXCEPT !.admin_active = TRUE,
                                    !.trace_speed = (@ * 13) \div 10], w.c)}
        ELSE {})

\* the pass going on to the checks with no trace accrued
AccrueTrace_skipped(w) == {World(w.p, w.n, w.c)}

\* src 1445-1481: the per-attempt trace accrual, then the admin activation
AccrueTrace(w) ==
    LET n1 == [w.n EXCEPT !.trace_progress = @ + TraceIncrease(w.p, w.n)]
        may_activate == ~n1.admin_active
                        /\ n1.trace_progress > ADMIN_ACTIVATE_THRESHOLD * TraceUnit
    IN {World(w.p, n1, w.c)} \cup
       (IF may_activate
        THEN {World(w.p, [n1 EXCEPT !.admin_active = TRUE,
                                    !.trace_speed = (@ * 13) \div 10], w.c)}
        ELSE {})

\* src 1487-1488: after the loop
AfterAttackLoop(w, uid) ==
    IF w.n.firewall_strength <= 0 THEN compromise_node(w, uid) ELSE {w}

\* src 1483-1485 and the loop test: the worlds after one pass, each with
\* ctl = "loop" (the menu is shown again) or "exit" (attack_node returned)
EndOfPass(w, uid) ==
    IF w.n.trace_progress >= TRACE_COMPLETE_THRESHOLD * TraceUnit
    THEN UNION {{[p |-> x.p, n |-> x.n, c |-> x.c, ctl |-> "exit"] :
                   x \in AfterAttackLoop(World(q, w.n, w.c), uid)}
                : q \in handle_trace_complete(w.p)}
    ELSE IF AttackLoopCondition(w.n)
    THEN {[p |-> w.p, n |-> w.n, c |-> w.c, ctl |-> "loop"]}
    ELSE {[p |-> x.p, n |-> x.n, c |-> x.c, ctl |-> "exit"] : x \in AfterAttackLoop(w, uid)}

\* the pass with the abort choice sent through the accrual like any other
\* choice instead of leaving the loop at src 1438
AttackPass_abort_accrues(w, uid, choice) ==
    LET kind == choice[1]
        vuln == w.n.services[choice[2][1]].vulnerabilities[choice[2][2]]
        missing_tool == kind = "exploit" /\ vuln.requires_tool # "none"
                        /\ ~HasToolOfType(w.p, vuln.requires_tool)
        acted == CASE kind = "exploit" -> execute_exploit(w, choice[2])
                   [] kind = "ddos" -> use_botnet_ddos(w, choice[2] - 1)
                   [] kind = "clear" -> {clear_traces(w)}
                   [] OTHER -> {w}
    IN IF missing_tool
       THEN {[p |-> w.p, n |-> w.n, c |-> w.c, ctl |-> "loop"]}
       ELSE UNION {UNION {
              IF kind = "abort"
              THEN {[p |-> x.p, n |-> x.n, c |-> x.c, ctl |-> "exit"] :
                      x \in AfterAttackLoop(w2, uid)}
              ELSE EndOfPass(w2, uid) : w2 \in AccrueTrace(w1)} : w1 \in acted}

\* one pass of the while loop for the typed choice
AttackPass(w, uid, choice) ==
    LET kind == choice[1]
        vuln == w.n.services[choice[2][1]].vulnerabilities[choice[2][2]]
        missing_tool == kind = "exploit" /\ vuln.requires_tool # "none"
                        /\ ~HasToolOfType(w.p, vuln.requires_tool)
        acted == CASE kind = "exploit" -> execute_exploit(w, choice[2])
                   [] kind = "ddos" -> use_botnet_ddos(w, choice[2] - 1)
                   [] kind = "clear" -> {clear_traces(w)}
                   [] OTHER -> {w}
    IN IF missing_tool
       THEN {[p |-> w.p, n |-> w.n, c |-> w.c, ctl |-> "loop"]}            \* continue
       ELSE IF kind = "abort"
       THEN {[p |-> x.p, n |-> x.n, c |-> x.c, ctl |-> "exit"] :
               x \in AfterAttackLoop(w, uid)}                               \* break
       ELSE UNION {UNION {EndOfPass(w2, uid) : w2 \in AccrueTrace(w1)} : w1 \in acted}

Here == player.current_location

CurrentWorld == World(player, nodes[Here], contracts)

\* write a world back
Commit(w) ==
    /\ player' = w.p
    /\ nodes' = [nodes EXCEPT ![Here] = w.n]
    /\ contracts' = w.c

NoChange == UNCHANGED <<player, nodes, contracts>>

\* network menu, choice 2: attack_node up to its first prompt
AttackEnter ==
    /\ pc = "network"
    /\ Budget
    /\ LET node == nodes[Here] IN
       IF node.compromised /\ ~node.backdoor_installed
       THEN NoChange /\ pc' = "network"
       ELSE IF AttackLoopCondition(node)
       THEN NoChange /\ pc' = (IF node.discovered_vulns # {} THEN "attack" ELSE "network")
       ELSE /\ \E w \in AfterAttackLoop(CurrentWorld, Here) : Commit(w)
            /\ pc' = "network"
    /\ UNCHANGED <<rivals, obs>>
    /\ Count

\* one pass of the attack loop, from the prompt to the next prompt or the return
AttackStep ==
    /\ pc = "attack"
    /\ Budget
    /\ \E choice \in AttackChoices(CurrentWorld) :
         \E w \in AttackPass(CurrentWorld, Here, choice) :
           /\ Commit(World(w.p, w.n, w.c))
           /\ pc' = (IF w.ctl = "loop" THEN "attack" ELSE "network")
    /\ UNCHANGED <<rivals, obs>>
    /\ Count

(***************************************************************************)
(* network_menu (src 1276-1310) and its handlers                           *)
(***************************************************************************)
\* discovery_chance of scan_node, as a rate
DiscoveryChance(p) ==
    30000 + p.skills.scanning * 10000 + ToolBonus(p, "scanner") * 1000

\* the subsets of S that independent draws of probability chance[x] can select
Drawn(S, chance) ==
    {T \in SUBSET S : \A x \in S : (x \in T) \in Roll(chance[x])}

RECURSIVE ScanServices(_, _, _)
\* scan_node's service loop (src 1335-1355) from service i on: the possible nodes
ScanServices(i, node, p) ==
    IF i > Len(node.services) THEN {node}
    ELSE
      LET known == (i - 1) \in node.discovered_services
          revealed == [node EXCEPT !.discovered_services = @ \cup {i - 1}]
          hidden == {id \in VulnIds(node) : id[1] = i /\ id \notin node.discovered_vulns}
          chance == [id \in hidden |->
                       RateOne - node.services[id[1]].vulnerabilities[id[2]].discovery_difficulty * 10000
                         + p.skills.scanning * 5000]
          deep == IF node.services[i].vulnerabilities # << >>
                  THEN Roll((DiscoveryChance(p) * 7) \div 10) ELSE {FALSE}
          found == {[revealed EXCEPT !.discovered_vulns = @ \cup T] :
                      T \in UNION {IF d THEN Drawn(hidden, chance) ELSE {{}} : d \in deep}}
          after == (IF known \/ TRUE \in Roll(DiscoveryChance(p)) THEN found ELSE {})
                   \cup (IF ~known /\ FALSE \in Roll(DiscoveryChance(p)) THEN {node} ELSE {})
      IN UNION {ScanServices(i + 1, n2, p) : n2 \in after}

\* GameInterface.scan_node (src 1312-1367)
scan_node(w) ==
    UNION {
      LET n1 == [w.n EXCEPT !.trace_progress =
                    @ + SumOver(T, [k \in 1..Len(w.n.honeypots) |->
                                      w.n.honeypots[k].trace_increase]) * TraceUnit]
          p1 == [w.p EXCEPT !.heat_level = @ + 5 * Cardinality(T)]
          p2 == GainExperience(p1, 5 * w.n.security_rating)
      IN {World(q, n2, w.c) : q \in LevelUpOutcomes(p2), n2 \in ScanServices(1, n1, w.p)}
      : T \in SUBSET (1..Len(w.n.honeypots))}

\* install_backdoor without the test of node.compromised of src 1687
install_backdoor_anywhere(w) ==
    IF w.n.backdoor_installed THEN {w}
    ELSE
      LET success_chance == 70000 + w.p.skills.reverse_engineering * 5000
                              + ToolBonus(w.p, "rootkit") * 1000
          installed ==
            {World(q, [w.n EXCEPT !.backdoor_installed = TRUE], w.c) :
               q \in LevelUpOutcomes(GainExperience(w.p, w.n.security_rating * 20))}
          failed == {World(w.p, AddTrace(w.n, 20), w.c)}
      IN UNION {IF ok THEN installed ELSE failed : ok \in Roll(success_chance)}

\* GameInterface.install_backdoor (src 1686-1717)
install_backdoor(w) ==
    IF ~w.n.compromised \/ w.n.backdoor_installed THEN {w}
    ELSE
      LET success_chance == 70000 + w.p.skills.reverse_engineering * 5000
                              + ToolBonus(w.p, "rootkit") * 1000
          installed ==
            {World(q, [w.n EXCEPT !.backdoor_installed = TRUE], w.c) :
               q \in LevelUpOutcomes(GainExperience(w.p, w.n.security_rating * 20))}
          failed == {World(w.p, AddTrace(w.n, 20), w.c)}
      IN UNION {IF ok THEN installed ELSE failed : ok \in Roll(success_chance)}

\* navigate_network without the discovered_nodes filter of src 1796
NavigableNodes_unfiltered(p, node) == SeqToSet(node.connections)

\* navigate_network (src 1794-1798): the connected nodes that may be entered
NavigableNodes(p, node) == SeqToSet(node.connections) \cap p.discovered_nodes

\* GameInterface.discover_nodes (src 1823-1841): the possible discovered sets
discover_nodes(p, node) ==
    LET fresh == SeqToSet(node.connections) \ p.discovered_nodes
        chance == [n \in fresh |-> 50000 + p.skills.scanning * 10000]
    IN {[p EXCEPT !.discovered_nodes = @ \cup T] : T \in Drawn(fresh, chance)}

\* GameInterface.navigate_bounces (src 1644-1684): the possible bounce chains
navigate_bounces(p) ==
    LET free == {n \in p.compromised_nodes : n \notin SeqToSet(p.bounced_nodes)} IN
    IF free = {} THEN {p}
    ELSE {p, [p EXCEPT !.bounced_nodes = << >>]}
           \cup {[p EXCEPT !.bounced_nodes = Append(@, n)] : n \in free}

NetworkOp(W) ==
    /\ pc = "network"
    /\ Budget
    /\ \E w \in W : Commit(w)
    /\ UNCHANGED <<rivals, pc, obs>>
    /\ Count

ScanNode == NetworkOp(scan_node(CurrentWorld))

InstallBackdoor == NetworkOp(install_backdoor(CurrentWorld))

NavigateNetwork ==
    NetworkOp({World([player EXCEPT !.current_location = n], nodes[Here], contracts) :
                 n \in NavigableNodes(player, nodes[Here])})

DiscoverNodes ==
    NetworkOp({World(q, nodes[Here], contracts) : q \in discover_nodes(player, nodes[Here])})

NavigateBounces ==
    NetworkOp({World(q, nodes[Here], contracts) : q \in navigate_bounces(player)})

ClearTracesMenu == NetworkOp({clear_traces(CurrentWorld)})

(***************************************************************************)
(* social_engineering_menu (src 1843-1868) and its handlers                *)
(***************************************************************************)
EmployeeIds(node) == 1..Len(node.employees)

\* GameInterface.phishing_campaign (src 1870-1918)
phishing_campaign(w) ==
    LET targets == {e \in EmployeeIds(w.n) : ~w.n.employees[e].compromised} IN
    IF targets = {} THEN {w}
    ELSE UNION {
      LET target == w.n.employees[e]
          success_rate == target.phishing_susceptibility * 1000
                            + w.p.skills.social_engineering * 8000
          hooked ==
            LET n1 == [w.n EXCEPT !.employees[e].compromised = TRUE]
                n2 == AddTrace(DamageFirewall(n1, target.access_level * 30),
                               PHISHING_SUCCESS_TRACE)
            IN {World(q, n2, w.c) :
                  q \in LevelUpOutcomes(GainExperience(w.p, target.access_level * 15))}
          reported ==
            {World([w.p EXCEPT !.heat_level = @ + PHISHING_FAIL_HEAT],
                   AddTrace(w.n, PHISHING_FAIL_TRACE), w.c)}
      IN UNION {IF ok THEN hooked ELSE reported : ok \in Roll(success_rate)}
      : e \in targets}

\* GameInterface.osint_search (src 1920-1944)
osint_search(w) ==
    IF w.n.employees = << >> THEN w ELSE World(GainExperience(w.p, 10), w.n, w.c)

\* GameInterface.social_media_recon (src 1946-1977)
social_media_recon(w) ==
    LET high_activity == {e \in EmployeeIds(w.n) : w.n.employees[e].social_media_activity > 60} IN
    IF high_activity = {} THEN {w}
    ELSE {World(GainExperience(w.p, 15),
                [w.n EXCEPT !.employees[e].phishing_susceptibility = Min(100, @ + 10)],
                w.c) : e \in high_activity}

\* GameInterface.compromise_employee (src 1979-2027)
compromise_employee(w) ==
    LET compromised == {e \in EmployeeIds(w.n) : w.n.employees[e].compromised} IN
    {w} \cup UNION {
      LET emp == w.n.employees[e]
          n1 == [DamageFirewall(w.n, emp.access_level * 25) EXCEPT
                    !.trace_speed = (@ * 8) \div 10]
      IN {World(q, n1, w.c) :
            q \in LevelUpOutcomes(GainExperience(w.p, emp.access_level * 10))}
      : e \in compromised}

SocialOp(W) ==
    /\ pc = "social"
    /\ Budget
    /\ \E w \in W : Commit(w)
    /\ UNCHANGED <<rivals, pc, obs>>
    /\ Count

PhishingCampaign == SocialOp(phishing_campaign(CurrentWorld))

OsintSearch == SocialOp({osint_search(CurrentWorld)})

SocialMediaRecon == SocialOp(social_media_recon(CurrentWorld))

CompromiseEmployee == SocialOp(compromise_employee(CurrentWorld))

(***************************************************************************)
(* contract_menu (src 2391-2459)                                           *)
(***************************************************************************)
\* accepting contract k
accept_contract(p, cs, k) ==
    [p EXCEPT !.active_contracts = @ \cup {k},
              !.discovered_nodes = @ \cup {cs[k].target_node_uid}]

AcceptContract ==
    /\ pc = "contract"
    /\ Budget
    /\ \E k \in {i \in 1..Len(contracts) : ~contracts[i].completed} :
         player' = accept_contract(player, contracts, k)
    /\ UNCHANGED <<nodes, contracts, rivals, pc, obs>>
    /\ Count

(***************************************************************************)
(* black_market_menu (src 2461-2729) and build_botnet (src 2180-2210)      *)
(***************************************************************************)
\* browse_tools: the purchase of tool t, or the rejection that changes nothing
purchase_tool(p, t) ==
    IF t \in p.inventory
       \/ ToolCatalog[t].level_requirement > p.level
       \/ p.credits < ToolCatalog[t].cost
    THEN p
    ELSE [p EXCEPT !.credits = @ - ToolCatalog[t].cost, !.inventory = @ \cup {t}]

\* purchase_proxy, answered "y"
purchase_proxy(p) ==
    LET cost == PROXY_BASE_COST + p.proxy_chains * PROXY_COST_INCREMENT IN
    IF p.credits < cost THEN p
    ELSE [p EXCEPT !.credits = @ - cost, !.proxy_chains = @ + 1]

\* sell_data: the nodes whose data can be sold
Sellable(p, net) == {n \in p.compromised_nodes : net[n].data_value > 0}

\* build_botnet: size = randint(50, 200) + 20 * skill, quality centi
build_botnet(p, drawn) ==
    IF p.credits < BOTNET_BUILD_COST THEN p
    ELSE LET size == drawn + p.skills.botnet_management * 20
             quality == 50 + p.skills.botnet_management * 5
         IN [p EXCEPT !.credits = @ - BOTNET_BUILD_COST,
                      !.botnets = Append(@, [size |-> size, quality |-> quality,
                                             maintenance_cost |-> size * 2,
                                             ddos_power |-> (size * quality * 5) \div 1000,
                                             detected_nodes |-> 0])]

MarketOp(P) ==
    /\ pc = "market"
    /\ Budget
    /\ \E q \in P : player' = q
    /\ UNCHANGED <<nodes, contracts, rivals, pc, obs>>
    /\ Count

BrowseTools == MarketOp({purchase_tool(player, t) : t \in ToolNames})

PurchaseProxy == MarketOp({purchase_proxy(player)})

SellData ==
    /\ pc = "market"
    /\ Budget
    /\ \E n \in Sellable(player, nodes) :
         /\ player' = [player EXCEPT !.credits = @ + nodes[n].data_value,
                                     !.reputation = @ + 5,
                                     !.heat_level = @ + 3]
         /\ nodes' = [nodes EXCEPT ![n].data_value = 0]
    /\ UNCHANGED <<contracts, rivals, pc, obs>>
    /\ Count

(***************************************************************************)
(* The game from a new game                                                *)
(***************************************************************************)
Next ==
    \/ TickRivals
    \/ TickAdmin
    \/ TickEvents
    \/ MainMenuChoose
    \/ MenuBack
    \/ ScanNode
    \/ AttackEnter
    \/ AttackStep
    \/ InstallBackdoor
    \/ NavigateNetwork
    \/ DiscoverNodes
    \/ NavigateBounces
    \/ ClearTracesMenu
    \/ PhishingCampaign
    \/ OsintSearch
    \/ SocialMediaRecon
    \/ CompromiseEmployee
    \/ AcceptContract
    \/ BrowseTools
    \/ PurchaseProxy
    \/ SellData

Spec == Init /\ [][Next]_vars

(***************************************************************************)
(* Properties of the game (specification Spec)                             *)
(***************************************************************************)
\* C1: in every state reachable from a new game, every node id in
\* player.compromised_nodes is also in player.discovered_nodes.
C1_CompromisedAreDiscovered ==
    player.compromised_nodes \subseteq player.discovered_nodes

\* C1 witness: compromise_node has recorded the current node, which the
\* player had reached through discovered nodes only
C1_SomeNodeCompromised ==
    /\ Here \in player.compromised_nodes
    /\ nodes[Here].compromised
    /\ nodes[Here].firewall_strength <= 0

\* C2: for every node, compromised is true if and only if its
\* firewall_strength is at most 0: the flag is set only by the attack
\* resolver once the firewall is down, and no operation leaves a node with
\* firewall_strength <= 0 and compromised false.
C2_CompromisedIffFirewallDown ==
    \A n \in Nodes : nodes[n].compromised <=> (nodes[n].firewall_strength <= 0)

\* C2, the failing state: a rival has marked a node compromised whose
\* firewall still stands
C2_RivalCompromisedStandingFirewall ==
    \E n \in Nodes :
      /\ nodes[n].compromised
      /\ nodes[n].firewall_strength = nodes[n].max_firewall
      /\ n \notin player.compromised_nodes

\* C3: firewall_strength >= 0 for every node in every reachable state.
C3_FirewallNonNegative ==
    \A n \in Nodes : nodes[n].firewall_strength >= 0

\* C3, the failing state: phishing has taken access_level * 30 from a
\* firewall that held less
C3_PhishingDroveFirewallNegative ==
    \E n \in Nodes :
      /\ nodes[n].firewall_strength < 0
      /\ \E e \in EmployeeIds(nodes[n]) : nodes[n].employees[e].compromised

(***************************************************************************)
(* calculate_success_rate over its whole input space (specification        *)
(* SpecRate): the player and the vulnerability are drawn, the rate is      *)
(* computed, then the exploitation skill is raised or an exploit framework *)
(* is bought and the rate is computed again.                               *)
(***************************************************************************)
MaxPatch == 100

\* patch levels tried, negative and extreme ones included
PatchLevels == {-5, 0, 2, 10, MaxPatch}

\* the shortest duration generate_event can draw for an event type
ShortestDuration(t) == CHOOSE d \in EventDurations[t] : \A e \in EventDurations[t] : d <= e

\* the active_events lists of at most MAX_ACTIVE_EVENTS events
EventLists ==
    LET one == {WorldEvent(t, ShortestDuration(t)) : t \in EventTypes} IN
    {<< >>} \cup {<<e>> : e \in one} \cup {<<e, f>> : e \in one, f \in one}

ExploitFrameworks == {t \in ToolNames : ToolCatalog[t].tool_type = "exploit_framework"}

RatePlayers ==
    {[NewPlayer EXCEPT !.skills.exploitation = s, !.inventory = inv,
                       !.hardware.CPU = cpu, !.hardware.RAM = ram,
                       !.active_events = ev] :
        s \in 1..MAX_SKILL_LEVEL, inv \in SUBSET ExploitFrameworks,
        cpu \in {10, 40}, ram \in {10, 22}, ev \in EventLists}

RateVulns ==
    {Vulnerability(t, VulnTemplates[t].severity, patch) :
        t \in DOMAIN VulnTemplates, patch \in PatchLevels}

InitRate ==
    /\ player \in RatePlayers
    /\ \E v \in RateVulns : obs = [op |-> "none", vuln |-> v, rate |-> 0, prev |-> 0]
    /\ nodes = SampleNetwork(80)
    /\ contracts = << >>
    /\ rivals = << >>
    /\ pc = "rate"
    /\ steps = 0

\* the rate of the drawn vulnerability for the drawn player
RateCompute ==
    /\ pc = "rate"
    /\ obs.op = "none"
    /\ obs' = [obs EXCEPT !.op = "rate", !.rate = calculate_success_rate(obs.vuln, player)]
    /\ UNCHANGED <<player, nodes, contracts, rivals, pc, steps>>

\* a level-up spent on exploitation (check_level_up), then the rate again
RateRaiseSkill ==
    /\ pc = "rate"
    /\ obs.op = "rate"
    /\ player.skills.exploitation < MAX_SKILL_LEVEL
    /\ player' = [player EXCEPT !.skills = ApplySkillChoice(@, 2)]
    /\ obs' = [obs EXCEPT !.op = "raise_skill", !.prev = obs.rate,
                          !.rate = calculate_success_rate(obs.vuln, player')]
    /\ UNCHANGED <<nodes, contracts, rivals, pc, steps>>

\* an exploit framework added to the inventory (browse_tools), then the rate again
RateAddTool ==
    /\ pc = "rate"
    /\ obs.op = "rate"
    /\ \E t \in ExploitFrameworks \ player.inventory :
         player' = [player EXCEPT !.inventory = @ \cup {t}]
    /\ obs' = [obs EXCEPT !.op = "add_tool", !.prev = obs.rate,
                          !.rate = calculate_success_rate(obs.vuln, player')]
    /\ UNCHANGED <<nodes, contracts, rivals, pc, steps>>

NextRate == RateCompute \/ RateRaiseSkill \/ RateAddTool

SpecRate == InitRate /\ [][NextRate]_vars

\* C4: for every vulnerability and every player state (any exploitation
\* skill, tools, CPU/RAM, active events, patch_level including 100 or
\* negative), calculate_success_rate returns r with 0.05 <= r <= 0.98.
C4_RateWithinClamp ==
    obs.op # "none" => /\ 5 * RateOne <= obs.rate * 100
                       /\ obs.rate * 100 <= 98 * RateOne

\* C4 witness: the unclamped value is negative (patch_level 100) and the
\* returned rate is the floor
C4_ExtremePatchClamped ==
    /\ obs.op = "rate"
    /\ obs.vuln.patch_level >= 100
    /\ RawSuccessRate(obs.vuln, player) < 0
    /\ obs.rate = BASE_EXPLOIT_SUCCESS_RATE

\* C5: with the vulnerability, hardware, events and patch_level fixed,
\* raising the exploitation skill or adding an exploit-framework tool never
\* lowers the returned rate.
C5_RateMonotone ==
    obs.op \in {"raise_skill", "add_tool"} => obs.rate >= obs.prev

\* C5 witness: a raised exploitation skill that raised the rate
C5_RateStrictlyRaised ==
    /\ obs.op = "raise_skill"
    /\ obs.rate > obs.prev
    /\ obs.rate < MAX_EXPLOIT_SUCCESS_RATE

\* C6: exploitation 3, no tools, baseline CPU and RAM, no active events,
\* success_rate_base 0.65 and patch_level 2 give the rate 0.74.
C6_ScenarioRate ==
    ( /\ obs.op = "rate"
      /\ player.skills.exploitation = 3
      /\ player.inventory = {}
      /\ player.hardware.CPU = 10 /\ player.hardware.RAM = 10
      /\ player.active_events = << >>
      /\ obs.vuln.success_rate_base = 65
      /\ obs.vuln.patch_level = 2 )
    => obs.rate * 100 = 74 * RateOne

\* C6 witness: the scenario has been computed
C6_ScenarioComputed ==
    /\ obs.op = "rate"
    /\ player.skills.exploitation = 3
    /\ player.inventory = {}
    /\ player.hardware = StartingHardware
    /\ player.active_events = << >>
    /\ obs.vuln.success_rate_base = 65
    /\ obs.vuln.patch_level = 2
    /\ obs.rate = 74000

(***************************************************************************)
(* The attack session from mid-game states (specification SpecTrace): the  *)
(* player has compromised n1, moved on to n2 and scanned it, has bought    *)
(* proxy chains, trained stealth and may bounce through n1 and own a       *)
(* botnet; attack_node runs on n2, one pass of its loop per step.          *)
(***************************************************************************)
MaxProxies == 3

MaxAttempts == 2

\* n1 after phishing its administrator (access_level 5) and entering the attack
CompromisedEntry(node) ==
    [DamageFirewall(node, 5 * 30) EXCEPT
        !.compromised = TRUE,
        !.employees[1].compromised = TRUE,
        !.trace_progress = PHISHING_SUCCESS_TRACE * TraceUnit]

\* n2 with its service and vulnerabilities found by scan_node, trace as given
ScannedTarget(node, trace) ==
    [node EXCEPT !.discovered_services = {0},
                 !.discovered_vulns = VulnIds(node),
                 !.trace_progress = trace]

SessionBotnet == build_botnet([NewPlayer EXCEPT !.credits = BOTNET_BUILD_COST], 50).botnets

\* identity_heat left by earlier traces: what the next trace-complete takes
\* to INVESTIGATION_START_THRESHOLD, and to one above it
SessionIdentityHeat ==
    {INVESTIGATION_START_THRESHOLD - TRACE_IDENTITY_HEAT_INCREASE,
     INVESTIGATION_START_THRESHOLD - TRACE_IDENTITY_HEAT_INCREASE + 1}

SessionPlayers ==
    {[NewPlayer EXCEPT !.skills.stealth = s, !.proxy_chains = k,
                       !.bounced_nodes = b, !.botnets = bots,
                       !.compromised_nodes = {"n1"},
                       !.discovered_nodes = {"n1", "n2"},
                       !.identity_heat = heat,
                       !.current_location = "n2"] :
        s \in {1, MAX_SKILL_LEVEL}, k \in 0..MaxProxies,
        b \in {<< >>, << "n1" >>}, bots \in {<< >>, SessionBotnet},
        heat \in SessionIdentityHeat}

\* the damage earlier sessions did to the firewall of n2 (160): none, or
\* what leaves a firewall that the next exploit to land brings down
EarlierDamage == {0, 150}

InitTrace ==
    /\ player \in SessionPlayers
    /\ \E trace \in {0, 39 * TraceUnit, 97 * TraceUnit}, damage \in EarlierDamage :
         LET net == SampleNetwork(80) IN
         nodes = [net EXCEPT !["n1"] = CompromisedEntry(@),
                             !["n2"] = DamageFirewall(ScannedTarget(@, trace), damage)]
    /\ contracts = << Contract(SampleNetwork(80), "n2", "steal_data", 12) >>
    /\ rivals = << >>
    /\ pc \in {"attack", "social"}
    /\ steps = 0
    /\ obs = [op |-> "none", kind |-> "none", discount |-> 0, undiscounted |-> 0, delta |-> 0,
              before |-> CurrentWorld, choice |-> << "none", 0 >>]

\* one pass of attack_node's loop, with the stealth discount and the trace
\* gained in the pass recorded
SessionPass ==
    /\ pc = "attack"
    /\ steps < MaxAttempts
    /\ \E choice \in AttackChoices(CurrentWorld) :
         \E w \in AttackPass(CurrentWorld, Here, choice) :
           /\ Commit(World(w.p, w.n, w.c))
           /\ pc' = (IF w.ctl = "loop" THEN "attack" ELSE "network")
           /\ obs' = [op |-> "pass", kind |-> choice[1],
                      discount |-> StealthDiscount(player),
                      undiscounted |-> TraceBeforeStealth(player, nodes[Here]),
                      delta |-> w.n.trace_progress - nodes[Here].trace_progress,
                      before |-> CurrentWorld, choice |-> choice]
    /\ steps' = steps + 1
    /\ UNCHANGED rivals

\* attack_node called again from the network menu
SessionReenter ==
    /\ pc = "network"
    /\ steps < MaxAttempts
    /\ AttackLoopCondition(nodes[Here])
    /\ ~nodes[Here].compromised
    /\ pc' = "attack"
    /\ UNCHANGED <<player, nodes, contracts, rivals, steps, obs>>

\* social_engineering_menu, choice 1: phishing_campaign on the current node;
\* the menu is shown again
SessionPhishing ==
    /\ pc = "social"
    /\ steps < MaxAttempts
    /\ \E w \in phishing_campaign(CurrentWorld) :
         /\ Commit(w)
         /\ obs' = [op |-> "phishing", kind |-> "phishing",
                    discount |-> 0, undiscounted |-> 0,
                    delta |-> w.n.trace_progress - nodes[Here].trace_progress,
                    before |-> CurrentWorld, choice |-> << "phishing", 0 >>]
    /\ steps' = steps + 1
    /\ UNCHANGED <<rivals, pc>>

NextTrace == SessionPass \/ SessionReenter \/ SessionPhishing

SpecTrace == InitTrace /\ [][NextTrace]_vars

\* C7: the stealth discount applied to the per-attempt trace increase never
\* exceeds 0.9 for any stealth skill, number of proxy chains and bounce-chain
\* length, so the multiplier (1 - discount) is at least 0.1: an attempt that
\* does nothing else adds at least a tenth of the undiscounted increase.
C7_StealthDiscountCapped ==
    obs.op = "pass" =>
      /\ obs.discount <= 90
      /\ 100 - obs.discount >= 10
      /\ (obs.kind = "invalid" => obs.delta >= (obs.undiscounted * 10) \div 100)

\* C7 witness: stealth, proxies and bounce add up to more than 0.9 and the
\* attempt was charged with the capped discount
C7_CapReached ==
    /\ obs.op = "pass"
    /\ obs.kind = "invalid"
    /\ StealthBonus(player) > MAX_STEALTH_REDUCTION
    /\ obs.discount = MAX_STEALTH_REDUCTION
    /\ obs.delta = obs.undiscounted \div 10
    /\ obs.delta > 0

\* the trace-complete effects of src 1722-1728 are visible between the world
\* before an action and the player after it
TraceCompleteApplied(before, p) ==
    /\ p.heat_level >= before.p.heat_level + TRACE_HEAT_INCREASE
    /\ p.identity_heat = before.p.identity_heat + TRACE_IDENTITY_HEAT_INCREASE
    /\ \/ p.credits <= before.p.credits - TRACE_PENALTY_MIN
       \/ p.credits = 0

\* C12: whenever a player action (exploit, DDoS, per-attempt accrual,
\* phishing) leaves a non-compromised node's trace_progress >= 100, the
\* trace-complete effects (heat_level +15, identity_heat +10, credit penalty)
\* have been applied for that node when the next prompt accepts an action.
C12_TraceCompleteAfterEachAction ==
    (/\ obs.op \in {"pass", "phishing"}
     /\ ~nodes[Here].compromised
     /\ obs.before.n.trace_progress < TRACE_COMPLETE_THRESHOLD * TraceUnit
     /\ nodes[Here].trace_progress >= TRACE_COMPLETE_THRESHOLD * TraceUnit)
      => TraceCompleteApplied(obs.before, player)

\* C12 divergence: phishing_campaign took the trace of a standing node past
\* 100 and the social menu is shown again with heat, identity heat and
\* credits untouched by any trace-complete
C12_PhishingPastThresholdUnpunished ==
    /\ obs.op = "phishing"
    /\ pc = "social"
    /\ ~nodes[Here].compromised
    /\ obs.before.n.trace_progress < TRACE_COMPLETE_THRESHOLD * TraceUnit
    /\ nodes[Here].trace_progress >= TRACE_COMPLETE_THRESHOLD * TraceUnit
    /\ player.identity_heat = obs.before.p.identity_heat
    /\ player.credits = obs.before.p.credits

\* the attack session does apply trace-complete in the pass that crosses 100
SessionAppliesTraceComplete ==
    (/\ obs.op = "pass"
     /\ obs.before.n.trace_progress < TRACE_COMPLETE_THRESHOLD * TraceUnit
     /\ nodes[Here].trace_progress >= TRACE_COMPLETE_THRESHOLD * TraceUnit)
      => TraceCompleteApplied(obs.before, player)

\* C13: for every node in every reachable state 0 <= trace_progress <= 100,
\* and trace_progress never decreases except through the clear-traces
\* countermeasure.
C13_TraceProgressBounded ==
    /\ \A n \in Nodes :
         /\ nodes[n].trace_progress >= 0
         /\ nodes[n].trace_progress <= 100 * TraceUnit
    /\ (obs.delta < 0 => obs.kind = "clear")

\* C13 divergence: a node's trace_progress stands above 100 at a prompt
C13_TraceAboveHundred ==
    /\ obs.op \in {"pass", "phishing"}
    /\ obs.delta > 0
    /\ nodes[Here].trace_progress > 100 * TraceUnit

\* the lower bound and the monotonicity do hold: only clear_traces (src 1601)
\* lowers trace_progress, and never below 0
TraceLoweredOnlyByClear ==
    /\ \A n \in Nodes : nodes[n].trace_progress >= 0
    /\ (obs.delta < 0 => obs.kind = "clear")
    /\ \A n \in Nodes \ {Here} : nodes[n].trace_progress = obs.before.n.trace_progress - obs.delta
                                   \/ nodes[n].trace_progress \in {0, PHISHING_SUCCESS_TRACE * TraceUnit}

\* C14: an invalid selection (non-numeric input or an out-of-range index) in
\* the attack-session menu changes no player or node state: trace_progress,
\* admin_active, trace_speed and the player's heat are as before.
C14_InvalidSelectionChangesNothing ==
    (obs.op = "pass" /\ obs.kind = "invalid") =>
      /\ nodes[Here] = obs.before.n
      /\ player = obs.before.p

\* C14 divergence: an invalid selection at the attack menu was charged the
\* per-attempt trace and woke the administrator
C14_InvalidSelectionCharged ==
    /\ obs.op = "pass"
    /\ obs.kind = "invalid"
    /\ nodes[Here].trace_progress > obs.before.n.trace_progress
    /\ nodes[Here].admin_active /\ ~obs.before.n.admin_active
    /\ nodes[Here].trace_speed > obs.before.n.trace_speed

\* C16: aborting an attack session leaves node.trace_progress, trace_speed,
\* admin_active, firewall_strength, compromised and the player's heat,
\* identity heat and credits exactly as they were after the last completed
\* action, and triggers neither trace-complete nor compromise.
C16_AbortAddsNoPenalty ==
    (obs.op = "pass" /\ obs.kind = "abort") =>
      /\ nodes[Here] = obs.before.n
      /\ player = obs.before.p
      /\ contracts = obs.before.c

\* C16 witness: a session that had made an attempt was aborted with trace on
\* the node and the firewall standing
C16_AbortedAfterAnAttempt ==
    /\ obs.op = "pass"
    /\ obs.kind = "abort"
    /\ steps > 1
    /\ nodes[Here].trace_progress > 0
    /\ nodes[Here].firewall_strength > 0
    /\ ~nodes[Here].compromised

(***************************************************************************)
(* check_level_up step by step (specification SpecLevel): one experience   *)
(* grant, then the while loop one iteration at a time, each prompt         *)
(* answered by a typed number.                                             *)
(***************************************************************************)
MaxStartLevel == 3

MaxGrant == 700

\* the experience granted at once
Grants == {40, 100, 250, 500, MaxGrant}

\* what can be typed at the prompt: 0 stands for non-numeric input,
\* Len(SkillNames) + 1 for a number past the list
TypedChoices == 0..(Len(SkillNames) + 1)

LevelPlayers ==
    {[NewPlayer EXCEPT !.level = l, !.experience = e, !.skills = sk] :
        l \in 1..MaxStartLevel, e \in {0, 60},
        sk \in {StartingSkills,
                [StartingSkills EXCEPT !.exploitation = MAX_SKILL_LEVEL,
                                       !.stealth = MAX_SKILL_LEVEL - 1]}}

RECURSIVE SkillSum(_, _)
\* the sum of the first i skills
SkillSum(skills, i) == IF i = 0 THEN 0 ELSE skills[SkillNames[i]] + SkillSum(skills, i - 1)

InitLevel ==
    /\ player \in LevelPlayers
    /\ nodes = SampleNetwork(80)
    /\ contracts = << >>
    /\ rivals = << >>
    /\ pc = "grant"
    /\ steps = 0
    /\ obs = [op |-> "none", level0 |-> 0, total |-> 0, skills0 |-> 0, prompts |-> 0]

\* the experience grant that precedes the call of check_level_up
LevelGrant ==
    /\ pc = "grant"
    /\ \E amount \in Grants :
         /\ player' = GainExperience(player, amount)
         /\ obs' = [op |-> "grant", level0 |-> player.level,
                    total |-> player.experience + amount,
                    skills0 |-> SkillSum(player.skills, Len(SkillNames)),
                    prompts |-> 0]
    /\ pc' = "check"
    /\ UNCHANGED <<nodes, contracts, rivals, steps>>

\* src 2810-2839: the loop test holds; one iteration with the typed choice
LevelIterate ==
    /\ pc = "check"
    /\ player.experience >= ExpNeeded(player.level)
    /\ \E choice \in TypedChoices : player' = LevelUpOnce(player, choice)
    /\ obs' = [obs EXCEPT !.op = "prompt", !.prompts = @ + 1]
    /\ UNCHANGED <<nodes, contracts, rivals, pc, steps>>

\* src 2810: the loop test fails; check_level_up returns
LevelReturn ==
    /\ pc = "check"
    /\ player.experience < ExpNeeded(player.level)
    /\ pc' = "done"
    /\ obs' = [obs EXCEPT !.op = "return"]
    /\ UNCHANGED <<player, nodes, contracts, rivals, steps>>

NextLevel == LevelGrant \/ LevelIterate \/ LevelReturn

SpecLevel == InitLevel /\ [][NextLevel]_vars

\* the sum of the thresholds of the k levels from level l0 on
ThresholdSum(l0, k) == 100 * (k * l0) + 100 * ((k * (k - 1)) \div 2)

\* the number of thresholds an experience total crosses from level l0
Crossed(l0, total) ==
    CHOOSE k \in 0..(total \div 100) :
      /\ ThresholdSum(l0, k) <= total
      /\ ThresholdSum(l0, k + 1) > total

\* C8: when one grant followed by check_level_up crosses k >= 1 thresholds
\* (level L costs L * 100), the player ends at level L0 + k with experience
\* equal to the total minus the k thresholds consumed, the final experience
\* is below the new level's threshold, and the prompt was issued k times.
C8_MultiLevelGrant ==
    pc = "done" =>
      LET k == Crossed(obs.level0, obs.total) IN
      /\ player.level = obs.level0 + k
      /\ player.experience = obs.total - ThresholdSum(obs.level0, k)
      /\ player.experience < player.level * 100
      /\ obs.prompts = k

\* C8 witness: a single grant that crossed three thresholds
C8_ThreeLevelsAtOnce ==
    /\ pc = "done"
    /\ Crossed(obs.level0, obs.total) = 3
    /\ player.level = obs.level0 + 3
    /\ obs.prompts = 3

\* C9: each level gained increments exactly one of the 7 skills by exactly
\* 1 (the choice is blocking), and no skill exceeds 10: a level-up never
\* completes with zero skills changed.
C9_EachLevelRaisesOneSkill ==
    obs.op \in {"prompt", "return"} =>
      /\ SkillSum(player.skills, Len(SkillNames)) = obs.skills0 + obs.prompts
      /\ \A i \in 1..Len(SkillNames) : player.skills[SkillNames[i]] <= 10

\* C9, the failing state: a level was gained and every skill is what it was
C9_LevelGainedNoSkillChanged ==
    /\ pc = "done"
    /\ obs.prompts = 1
    /\ player.level = obs.level0 + 1
    /\ SkillSum(player.skills, Len(SkillNames)) = obs.skills0

\* the part of C9 the code keeps: no skill exceeds MAX_SKILL_LEVEL
SkillsWithinCap ==
    \A i \in 1..Len(SkillNames) : player.skills[SkillNames[i]] <= MAX_SKILL_LEVEL

(***************************************************************************)
(* The investigation (specification SpecInv): the player is under          *)
(* investigation with the progress close to the threshold; each step is    *)
(* the investigation check of one main-menu iteration (src 1190-1194).     *)
(***************************************************************************)
MaxCredits == 1000

InvestigatedPlayers ==
    {[NewPlayer EXCEPT !.credits = c, !.reputation = rep, !.inventory = inv,
                       !.botnets = IF inv = {} THEN << >> ELSE SessionBotnet,
                       !.under_investigation = TRUE,
                       !.investigation_progress = prog,
                       !.identity_heat = INVESTIGATION_START_THRESHOLD + TRACE_IDENTITY_HEAT_INCREASE,
                       !.heat_level = 4 * TRACE_HEAT_INCREASE] :
        c \in 0..MaxCredits, rep \in {40, 250},
        inv \in {{}, {"PortScannerPro", "ExploitKit"},
                 {"PortScannerPro", "ExploitKit", "ProxyChainAdvanced", "CryptoBreaker"}},
        prog \in {99400, 99900}}

InitInv ==
    /\ player \in InvestigatedPlayers
    /\ nodes = SampleNetwork(80)
    /\ contracts = << >>
    /\ rivals = << >>
    /\ pc = "top"
    /\ steps = 0
    /\ obs = [op |-> "none", credits0 |-> 0, before |-> player]

\* src 1190-1194: the progress advances; at the threshold
\* handle_investigation_complete runs
InvestigationCheck ==
    /\ pc = "top"
    /\ player.under_investigation
    /\ \E q \in InvestigationTick(player) :
         /\ player' = q
         /\ obs' = [op |-> IF q.under_investigation THEN "advance" ELSE "complete",
                    credits0 |-> player.credits, before |-> player]
    /\ UNCHANGED <<nodes, contracts, rivals, pc, steps>>

NextInv == InvestigationCheck

SpecInv == InitInv /\ [][NextInv]_vars

\* C10: Investigation Complete removes 70% of the current credits for every
\* starting amount, credits' = credits - int(0.7 * credits), and never
\* leaves the player with more credits than before.
C10_SeventyPercentSeized ==
    obs.op = "complete" =>
      /\ player.credits = obs.credits0 - AssetLoss(obs.credits0)
      /\ player.credits <= obs.credits0

\* C10, the failing state: the seizure left more credits than the player had
C10_SeizureAddedCredits ==
    /\ obs.op = "complete"
    /\ obs.credits0 = 50
    /\ player.credits = 100

\* the scenario of C10 that the code does satisfy: 1000 credits leave 300
InvestigationScenario ==
    (obs.op = "complete" /\ obs.credits0 = 1000) => player.credits = 300

\* C11: immediately after Investigation Complete, reputation is
\* max(0, old reputation - 100), the inventory has lost exactly
\* min(3, old inventory size) tools, botnets is empty, heat_level is 20,
\* under_investigation is false and investigation_progress is 0.
C11_InvestigationCompleteEffects ==
    obs.op = "complete" =>
      LET old == obs.before
          lost == old.inventory \ player.inventory
      IN /\ player.reputation = (IF old.reputation - 100 > 0 THEN old.reputation - 100 ELSE 0)
         /\ player.inventory \subseteq old.inventory
         /\ Cardinality(lost) = (IF Cardinality(old.inventory) < 3
                                 THEN Cardinality(old.inventory) ELSE 3)
         /\ player.botnets = << >>
         /\ player.heat_level = 20
         /\ ~player.under_investigation
         /\ player.investigation_progress = 0

\* C11 witness: a player with four tools, a botnet and a reputation of 40
\* went through the seizure and keeps one tool
C11_SeizedWithFourTools ==
    /\ obs.op = "complete"
    /\ Cardinality(obs.before.inventory) = 4
    /\ obs.before.botnets # << >>
    /\ obs.before.reputation = 40
    /\ Cardinality(player.inventory) = 1
    /\ player.reputation = 0

(***************************************************************************)
(* The world events over any number of ticks (specification SpecEvents):   *)
(* update_dynamic_events called again and again from a new game, until     *)
(* events expire and new ones take their place.                            *)
(***************************************************************************)
InitEvents ==
    /\ player = NewPlayer
    /\ nodes = SampleNetwork(80)
    /\ contracts = << >>
    /\ rivals = << >>
    /\ pc = "tick_events"
    /\ steps = 0
    /\ obs = [op |-> "none", active |-> 0, aged |-> 0]

\* one main-loop iteration's call of update_dynamic_events (src 1188)
EventsTick ==
    /\ pc = "tick_events"
    /\ \E ev \in update_dynamic_events(player.active_events) :
         /\ player' = [player EXCEPT !.active_events = ev]
         /\ obs' = [op |-> "tick", active |-> Len(player.active_events),
                    aged |-> Len(AgeEvents(player.active_events))]
    /\ UNCHANGED <<nodes, contracts, rivals, pc, steps>>

NextEvents == EventsTick

SpecEvents == InitEvents /\ [][NextEvents]_vars

\* C17: at most 2 world events are active after every tick of
\* update_dynamic_events, for any sequence of ticks and random outcomes from a
\* new game, and a new event is added only when fewer than 2 are active.
C17_AtMostTwoEvents ==
    /\ Len(player.active_events) <= 2
    /\ (obs.op = "tick" /\ Len(player.active_events) > obs.aged) => obs.aged < 2

\* C17 witness: a tick found two events active, one of them expired in it and
\* a new event took the free place
C17_ExpiredEventReplaced ==
    /\ obs.op = "tick"
    /\ obs.active = 2
    /\ obs.aged = 1
    /\ Len(player.active_events) = 2

(***************************************************************************)
(* Purchases and rejected actions (specification SpecReject): the black    *)
(* market, the botnet menu, install_backdoor and the attack menu from      *)
(* players with different credits and levels.                              *)
(***************************************************************************)
\* BlackMarket.generate_hardware (src 739-755): the key the purchase stores
\* the item under (htype.name.capitalize()), cost, bonus in tenths
HardwareCatalog ==
    << [key |-> "Cpu", cost |-> 5000, bonus |-> 20],
       [key |-> "Cpu", cost |-> 25000, bonus |-> 40],
       [key |-> "Ram", cost |-> 3000, bonus |-> 15],
       [key |-> "Ram", cost |-> 8000, bonus |-> 22],
       [key |-> "Storage", cost |-> 4000, bonus |-> 15],
       [key |-> "Cooling", cost |-> 3500, bonus |-> 13],
       [key |-> "Cooling", cost |-> 12000, bonus |-> 20] >>

\* lvl_req = int(cost / 2000)
HardwareLevel(item) == item.cost \div 2000

\* the items offered to a player of the given level
generate_hardware(player_level) ==
    {HardwareCatalog[i] : i \in {j \in 1..Len(HardwareCatalog) :
                                   HardwareLevel(HardwareCatalog[j]) <= player_level + 2}}

\* BlackMarket.generate_exploits (src 758-777): the ends of each random range
generate_exploits(player_level) ==
    {[name |-> n, level_req |-> l, cost |-> l * c] :
        n \in {"EternalBlue v1", "Log4Shell v3"},
        l \in {Max(1, player_level - 2), player_level + 3},
        c \in {500, 2000}}

\* browse_exploits (src 2536-2585): the purchase of the offer e
purchase_exploit(p, e) ==
    IF e.name \in p.known_exploits
       \/ e.level_req > p.level
       \/ p.credits < e.cost
    THEN p
    ELSE [p EXCEPT !.credits = @ - e.cost, !.known_exploits = @ \cup {e.name}]

\* browse_hardware (src 2587-2632): the purchase of item; an installed
\* component is recognised by its bonus, which no two items of a key share
purchase_hardware(p, item) ==
    LET installed == item.key \in DOMAIN p.hardware /\ p.hardware[item.key] = item.bonus IN
    IF installed
       \/ HardwareLevel(item) > p.level
       \/ p.credits < item.cost
    THEN p
    ELSE [p EXCEPT !.credits = @ - item.cost,
                   !.hardware = [k \in DOMAIN p.hardware \cup {item.key} |->
                                   IF k = item.key THEN item.bonus ELSE p.hardware[k]]]

\* laundering that takes the fee without looking at the credits
launder_money_unchecked(p) ==
    [p EXCEPT !.credits = @ - LAUNDER_COST,
              !.identity_heat = Max(0, @ - LAUNDER_IDENTITY_REDUCTION),
              !.investigation_progress = Max(0, @ - LAUNDER_INVESTIGATION_REDUCTION * TraceUnit)]

\* launder_money_menu (src 2704-2729), answered "y"
launder_money(p) ==
    IF p.credits < LAUNDER_COST THEN p
    ELSE [p EXCEPT !.credits = @ - LAUNDER_COST,
                   !.identity_heat = Max(0, @ - LAUNDER_IDENTITY_REDUCTION),
                   !.investigation_progress = Max(0, @ - LAUNDER_INVESTIGATION_REDUCTION * TraceUnit)]

MaxPurchases == 2

RejectPlayers ==
    {[NewPlayer EXCEPT !.credits = c, !.level = l, !.inventory = inv,
                       !.proxy_chains = k, !.identity_heat = 20,
                       !.investigation_progress = 8 * TraceUnit,
                       !.compromised_nodes = {"n1"},
                       !.discovered_nodes = {"n1", "n2"},
                       !.current_location = loc] :
        c \in {0, 400, 1999, 2000, 6000}, l \in {1, 4},
        inv \in {{}, {"PortScannerPro"}}, k \in {0, 1}, loc \in {"n1", "n2"}}

InitReject ==
    /\ player \in RejectPlayers
    /\ LET net == SampleNetwork(80) IN
       nodes = [net EXCEPT !["n1"] = CompromisedEntry(@),
                           !["n2"] = ScannedTarget(@, 39 * TraceUnit)]
    /\ contracts = << >>
    /\ rivals = << >>
    /\ pc \in {"market", "botnet", "network"}
    /\ steps = 0
    /\ obs = [op |-> "none", rejected |-> FALSE, before |-> [p |-> player, n |-> nodes]]

\* a handler of the black market or the botnet menu called at menu, the
\* player afterwards being q; rejected says whether the precondition the
\* handler tests was unmet
Purchase(menu, op, rejected, q) ==
    /\ pc = menu
    /\ steps < MaxPurchases
    /\ player' = q
    /\ obs' = [op |-> op, rejected |-> rejected, before |-> [p |-> player, n |-> nodes]]
    /\ steps' = steps + 1
    /\ UNCHANGED <<nodes, contracts, rivals, pc>>

ShopTools ==
    \E t \in ToolNames :
      Purchase("market", "tool",
               ToolCatalog[t].level_requirement > player.level
                 \/ player.credits < ToolCatalog[t].cost,
               purchase_tool(player, t))

ShopExploits ==
    \E e \in generate_exploits(player.level) :
      Purchase("market", "exploit",
               e.level_req > player.level \/ player.credits < e.cost,
               purchase_exploit(player, e))

ShopHardware ==
    \E item \in generate_hardware(player.level) :
      Purchase("market", "hardware",
               HardwareLevel(item) > player.level \/ player.credits < item.cost,
               purchase_hardware(player, item))

ShopProxy ==
    Purchase("market", "proxy",
             player.credits < PROXY_BASE_COST + player.proxy_chains * PROXY_COST_INCREMENT,
             purchase_proxy(player))

ShopLaunder ==
    Purchase("market", "launder", player.credits < LAUNDER_COST, launder_money(player))

ShopBotnet ==
    \E drawn \in {50, 200} :
      Purchase("botnet", "botnet", player.credits < BOTNET_BUILD_COST,
               build_botnet(player, drawn))

\* network menu, choice 3
RejectBackdoor ==
    /\ pc = "network"
    /\ steps < MaxPurchases
    /\ \E w \in install_backdoor(CurrentWorld) : Commit(w)
    /\ obs' = [op |-> "backdoor", rejected |-> ~nodes[Here].compromised,
               before |-> [p |-> player, n |-> nodes]]
    /\ steps' = steps + 1
    /\ UNCHANGED <<rivals, pc>>

\* network menu, choice 2, up to the first prompt of the attack menu
RejectAttackEnter ==
    /\ pc = "network"
    /\ ~nodes[Here].compromised
    /\ AttackLoopCondition(nodes[Here])
    /\ nodes[Here].discovered_vulns # {}
    /\ pc' = "attack"
    /\ UNCHANGED <<player, nodes, contracts, rivals, steps, obs>>

\* the attack menu, an exploit chosen
RejectExploit ==
    /\ pc = "attack"
    /\ steps < MaxPurchases
    /\ \E id \in VulnsList(nodes[Here]) :
         LET vuln == nodes[Here].services[id[1]].vulnerabilities[id[2]] IN
         \E w \in AttackPass(CurrentWorld, Here, <<"exploit", id>>) :
           /\ Commit(World(w.p, w.n, w.c))
           /\ pc' = (IF w.ctl = "loop" THEN "attack" ELSE "network")
           /\ obs' = [op |-> "attack_exploit",
                      rejected |-> vuln.requires_tool # "none"
                                     /\ ~HasToolOfType(player, vuln.requires_tool),
                      before |-> [p |-> player, n |-> nodes]]
    /\ steps' = steps + 1
    /\ UNCHANGED rivals

NextReject ==
    \/ ShopTools
    \/ ShopExploits
    \/ ShopHardware
    \/ ShopProxy
    \/ ShopLaunder
    \/ ShopBotnet
    \/ RejectBackdoor
    \/ RejectAttackEnter
    \/ RejectExploit

SpecReject == InitReject /\ [][NextReject]_vars

\* C15: when an action is rejected for an unmet precondition (exploit whose
\* required tool is not owned; tool, exploit, hardware, proxy, botnet or
\* laundering purchase with insufficient credits; tool, exploit or hardware
\* purchase below the level requirement; backdoor install on a node that is
\* not compromised) the player state and node state after the rejection equal
\* the state before it.
C15_RejectionChangesNothing ==
    obs.rejected => (player = obs.before.p /\ nodes = obs.before.n)

\* C15 witness: with 1999 credits a purchase went through and the laundering
\* that followed was refused for insufficient credits
C15_LaunderingRefused ==
    /\ obs.op = "launder"
    /\ obs.rejected
    /\ steps = 2
    /\ player.credits < 1999
    /\ player.identity_heat = 20

(***************************************************************************)
(* Saving and loading (specification SpecSave).  The objects of the game   *)
(* are modelled as tagged Python values, so that asdict, deep_convert, the *)
(* JSON encoding and load_from_dict are conversions between different      *)
(* kinds of value and a raised exception is a value of its own.            *)
(***************************************************************************)
PyInt(n) == [kind |-> "int", n |-> n]
PyFloat(x) == [kind |-> "float", x |-> x]
PyStr(s) == [kind |-> "str", s |-> s]
PyBool(b) == [kind |-> "bool", b |-> b]
PyNone == [kind |-> "none"]
PyList(q) == [kind |-> "list", list |-> q]
PyTuple(q) == [kind |-> "tuple", tuple |-> q]
PySet(S) == [kind |-> "set", set |-> S]
PyDict(f) == [kind |-> "dict", dict |-> f]
PyObj(cls, f) == [kind |-> "obj", cls |-> cls, fields |-> f]
PyEnum(cls, member) == [kind |-> "enum", cls |-> cls, member |-> member]
PyDatetime(t) == [kind |-> "datetime", instant |-> t]
PyTimedelta(h) == [kind |-> "timedelta", hours |-> h]
Raised(exc) == [kind |-> "raised", exc |-> exc]

IsRaised(v) == v.kind = "raised"

\* F of the value of e: Python evaluates an argument once, before the call
Value(e, F(_)) == CHOOSE r \in {F(x) : x \in {e}} : TRUE

\* the empty mapping: no keyword, no default, no entry
NoFields == [k \in {} |-> PyNone]

\* the Enum classes (src 150-203): member name |-> value
EnumMembers ==
    [ NetworkType |->
        [CORPORATE |-> "corporate", GOVERNMENT |-> "government", FINANCIAL |-> "financial",
         RESEARCH |-> "research", CRIMINAL |-> "criminal", MILITARY |-> "military",
         INFRASTRUCTURE |-> "infrastructure"],
      ExploitType |->
        [SQL_INJECTION |-> "sql_injection", BUFFER_OVERFLOW |-> "buffer_overflow",
         XSS |-> "cross_site_scripting", RCE |-> "remote_code_execution",
         PRIVILEGE_ESCALATION |-> "privilege_escalation", ZERO_DAY |-> "zero_day",
         SOCIAL_ENGINEERING |-> "social_engineering", MAN_IN_MIDDLE |-> "man_in_the_middle",
         PHISHING |-> "phishing", SUPPLY_CHAIN |-> "supply_chain",
         CRYPTOGRAPHIC |-> "cryptographic_weakness"],
      ToolType |->
        [SCANNER |-> "scanner", EXPLOIT_FRAMEWORK |-> "exploit_framework",
         PROXY_CHAIN |-> "proxy_chain", CRYPTANALYSIS |-> "cryptanalysis",
         BOTNET_CONTROLLER |-> "botnet_controller", KEYLOGGER |-> "keylogger",
         ROOTKIT |-> "rootkit"],
      EncryptionType |->
        [AES_128 |-> "aes_128", AES_256 |-> "aes_256", RSA_1024 |-> "rsa_1024",
         RSA_2048 |-> "rsa_2048", RSA_4096 |-> "rsa_4096", WEAK_HASH |-> "weak_hash"],
      HardwareType |->
        [CPU |-> "processor", RAM |-> "memory", STORAGE |-> "storage", COOLING |-> "cooling"],
      EventType |->
        [GLOBAL_PATCH |-> "global_patch", POLICE_CRACKDOWN |-> "police_crackdown",
         ZERO_DAY_LEAK |-> "zero_day_leak", NETWORK_WORM |-> "network_worm"] ]

\* Enum lookup by value, Cls(value): ValueError for an unknown value
EnumOf(cls, v0) ==
    Value(v0, LAMBDA v :
    (
        IF IsRaised(v) THEN v
        ELSE IF v.kind = "enum" /\ v.cls = cls THEN v
        ELSE LET members == IF v.kind = "str"
                            THEN {m \in DOMAIN EnumMembers[cls] : EnumMembers[cls][m] = v.s}
                            ELSE {}
             IN IF members = {} THEN Raised("ValueError")
                ELSE PyEnum(cls, CHOOSE m \in members : TRUE)
    ))

\* the member of cls whose value is s
Member(cls, s) == EnumOf(cls, PyStr(s))

\* datetime.isoformat of the instants the model uses, and its inverse
IsoStrings == << "2077-01-01T00:00:00", "2077-01-01T06:30:00", "2077-01-02T12:00:00" >>

isoformat(t) == PyStr(IsoStrings[t.instant])

fromisoformat(v0) ==
    Value(v0, LAMBDA v :
    (
        IF IsRaised(v) THEN v
        ELSE IF v.kind # "str" THEN Raised("TypeError")
        ELSE LET found == {t \in DOMAIN IsoStrings : IsoStrings[t] = v.s} IN
             IF found = {} THEN Raised("ValueError")
             ELSE PyDatetime(CHOOSE t \in found : TRUE)
    ))

\* the dataclasses (src 206-376): the fields without a default
Required ==
    [ WorldEvent |-> {"name", "etype", "duration", "multiplier", "description"},
      Vulnerability |-> {"name", "exploit_type", "severity", "patch_level",
                         "discovery_difficulty", "firewall_damage", "trace_cost",
                         "success_rate_base"},
      EncryptedData |-> {"encryption_type", "data_size", "value", "difficulty"},
      Employee |-> {"name", "email", "department", "access_level",
                    "social_media_activity", "phishing_susceptibility"},
      Service |-> {"name", "version", "port", "state", "vulnerabilities"},
      Honeypot |-> {"port", "fake_service", "detection_chance", "trace_increase"},
      Tool |-> {"name", "tool_type", "cost", "effectiveness", "description",
                "level_requirement"},
      Botnet |-> {"size", "quality", "maintenance_cost", "ddos_power"},
      HardwareComponent |-> {"name", "htype", "level", "cost", "bonus", "description"},
      NetworkNode |-> {"uid", "name", "ip_address", "network_type", "security_rating",
                       "firewall_strength", "max_firewall", "ice_level", "services",
                       "discovered_services", "discovered_vulns", "compromised",
                       "data_value", "trace_progress", "trace_speed", "last_attack_time",
                       "connections"},
      PlayerSkills |-> {},
      Faction |-> {"name", "reputation", "hostile"},
      RivalHacker |-> {"name", "skill_level", "specialization", "active_targets",
                       "last_seen"},
      PlayerState |-> {"handle", "level", "experience", "credits", "reputation",
                       "heat_level", "skills", "discovered_nodes", "compromised_nodes",
                       "current_location", "inventory", "active_contracts",
                       "completed_contracts", "game_time", "total_playtime"},
      Contract |-> {"uid", "title", "description", "target_node_uid", "objective",
                    "reward", "reputation_change", "time_limit", "difficulty",
                    "contractor"} ]

\* the fields with a default, and the default
Defaults ==
    [ WorldEvent |-> [target_faction |-> PyNone, target_network |-> PyNone],
      Vulnerability |-> [requires_tool |-> PyNone],
      EncryptedData |-> [cracked |-> PyBool(FALSE)],
      Employee |-> [compromised |-> PyBool(FALSE)],
      Service |-> [encryption |-> PyNone, employees_with_access |-> PyList(<< >>)],
      Honeypot |-> NoFields,
      Tool |-> [stealth_penalty |-> PyFloat(0)],
      Botnet |-> [detected_nodes |-> PyInt(0)],
      HardwareComponent |-> NoFields,
      NetworkNode |-> [honeypots |-> PyList(<< >>), has_siem |-> PyBool(FALSE),
                       has_incident_response |-> PyBool(FALSE),
                       admin_active |-> PyBool(FALSE), admin_skill |-> PyInt(1),
                       backdoor_installed |-> PyBool(FALSE),
                       network_segment |-> PyStr("DMZ"),
                       employees |-> PyList(<< >>), encrypted_traffic |-> PyList(<< >>)],
      PlayerSkills |-> [scanning |-> PyInt(1), exploitation |-> PyInt(1),
                        stealth |-> PyInt(1), cryptanalysis |-> PyInt(1),
                        social_engineering |-> PyInt(1), reverse_engineering |-> PyInt(1),
                        botnet_management |-> PyInt(1)],
      Faction |-> NoFields,
      RivalHacker |-> [hostile |-> PyBool(FALSE)],
      PlayerState |-> [botnets |-> PyList(<< >>), factions |-> PyDict(NoFields),
                       identity_heat |-> PyInt(0), known_exploits |-> PySet({}),
                       proxy_chains |-> PyInt(0), safe_houses |-> PyList(<< >>),
                       under_investigation |-> PyBool(FALSE),
                       investigation_progress |-> PyFloat(0),
                       hardware |-> PyDict(NoFields), active_events |-> PyList(<< >>),
                       bounced_nodes |-> PyList(<< >>)],
      Contract |-> [faction |-> PyNone, completed |-> PyBool(FALSE),
                    failed |-> PyBool(FALSE), deadline |-> PyNone] ]

\* Cls(**d): TypeError for a missing required or an unexpected keyword
Construct(cls, d0) ==
    Value(d0, LAMBDA d :
    (
        IF IsRaised(d) THEN d
        ELSE IF d.kind # "dict" THEN Raised("TypeError")
        ELSE LET given == DOMAIN d.dict
                 all == Required[cls] \cup DOMAIN Defaults[cls]
             IN IF ~(Required[cls] \subseteq given) \/ ~(given \subseteq all)
                THEN Raised("TypeError")
                ELSE PyObj(cls, [k \in all |-> IF k \in given THEN d.dict[k]
                                               ELSE Defaults[cls][k]])
    ))

\* d[key]
Item(d0, key) ==
    Value(d0, LAMBDA d :
    (
        IF IsRaised(d) THEN d
        ELSE IF d.kind # "dict" THEN Raised("TypeError")
        ELSE IF key \notin DOMAIN d.dict THEN Raised("KeyError")
        ELSE d.dict[key]
    ))

\* d.get(key, default)
Get(d0, key, default) ==
    Value(d0, LAMBDA d :
    (
        IF IsRaised(d) THEN d
        ELSE IF d.kind # "dict" THEN Raised("AttributeError")
        ELSE IF key \in DOMAIN d.dict THEN d.dict[key]
        ELSE default
    ))

\* d[key] = v
Assign(d0, key, v0) ==
    Value(d0, LAMBDA d :
      Value(v0, LAMBDA v :
    (
        IF IsRaised(d) THEN d
        ELSE IF IsRaised(v) THEN v
        ELSE IF d.kind # "dict" THEN Raised("TypeError")
        ELSE PyDict([k \in DOMAIN d.dict \cup {key} |-> IF k = key THEN v ELSE d.dict[k]])
    )))

\* bool(v)
Truthy(v0) ==
    Value(v0, LAMBDA v :
    (
        CASE v.kind = "none" -> FALSE
          [] v.kind = "bool" -> v.b
          [] v.kind = "int" -> v.n # 0
          [] v.kind = "float" -> v.x # 0
          [] v.kind = "str" -> v.s # ""
          [] v.kind = "list" -> v.list # << >>
          [] v.kind = "tuple" -> v.tuple # << >>
          [] v.kind = "set" -> v.set # {}
          [] v.kind = "dict" -> DOMAIN v.dict # {}
          [] OTHER -> TRUE
    ))

\* [F(x) for x in v]
MapList(v0, F(_)) ==
    Value(v0, LAMBDA v :
    (
        IF IsRaised(v) THEN v
        ELSE IF v.kind \notin {"list", "tuple"} THEN Raised("TypeError")
        ELSE LET items == IF v.kind = "list" THEN v.list ELSE v.tuple IN
             Value([i \in DOMAIN items |-> F(items[i])], LAMBDA mapped :
                 LET failed == {i \in DOMAIN mapped : IsRaised(mapped[i])} IN
                 IF failed # {} THEN mapped[CHOOSE i \in failed : \A j \in failed : i <= j]
                 ELSE PyList(mapped))
    ))

\* set(v) of a list: the members must be hashable
SetOf(v0) ==
    Value(v0, LAMBDA v :
    (
        IF IsRaised(v) THEN v
        ELSE IF v.kind = "set" THEN v
        ELSE IF v.kind \notin {"list", "tuple"} THEN Raised("TypeError")
        ELSE LET items == IF v.kind = "list" THEN v.list ELSE v.tuple IN
             IF \E i \in DOMAIN items : items[i].kind \in {"list", "dict", "set"}
             THEN Raised("TypeError")
             ELSE PySet({items[i] : i \in DOMAIN items})
    ))

RECURSIVE ListOfSet(_)
\* list(s) of a set: the members in the order the iteration yields them
ListOfSet(S) ==
    IF S = {} THEN << >>
    ELSE LET x == CHOOSE y \in S : TRUE IN << x >> \o ListOfSet(S \ {x})

RECURSIVE asdict(_)
\* dataclasses.asdict: dataclass instances become dicts; lists, tuples and
\* dicts are rebuilt around the converted members; anything else is copied
asdict(v0) ==
    Value(v0, LAMBDA v :
    (
        CASE v.kind = "obj" -> PyDict([k \in DOMAIN v.fields |-> asdict(v.fields[k])])
          [] v.kind = "list" -> PyList([i \in DOMAIN v.list |-> asdict(v.list[i])])
          [] v.kind = "tuple" -> PyTuple([i \in DOMAIN v.tuple |-> asdict(v.tuple[i])])
          [] v.kind = "dict" -> PyDict([k \in DOMAIN v.dict |-> asdict(v.dict[k])])
          [] OTHER -> v
    ))

\* save_game's convert (src 397-408)
convert(v0) ==
    Value(v0, LAMBDA v :
    (
        CASE v.kind = "set" -> PyList(ListOfSet(v.set))
          [] v.kind = "enum" -> PyStr(EnumMembers[v.cls][v.member])
          [] v.kind = "datetime" -> isoformat(v)
          [] v.kind = "timedelta" -> PyFloat(v.hours * 3600)
          [] v.kind = "obj" /\ v.cls \in {"PlayerSkills", "Tool", "Botnet", "Faction"} -> asdict(v)
          [] OTHER -> v
    ))

RECURSIVE deep_convert(_)
\* save_game's deep_convert (src 410-415): only dicts and lists are entered
deep_convert(v0) ==
    Value(v0, LAMBDA v :
    (
        CASE v.kind = "dict" -> PyDict([k \in DOMAIN v.dict |-> deep_convert(v.dict[k])])
          [] v.kind = "list" -> PyList([i \in DOMAIN v.list |-> deep_convert(v.list[i])])
          [] OTHER -> convert(v)
    ))

RECURSIVE JsonSerializable(_)
\* what json.dumps accepts
JsonSerializable(v0) ==
    Value(v0, LAMBDA v :
    (
        CASE v.kind \in {"none", "bool", "int", "float", "str"} -> TRUE
          [] v.kind = "list" -> \A i \in DOMAIN v.list : JsonSerializable(v.list[i])
          [] v.kind = "tuple" -> \A i \in DOMAIN v.tuple : JsonSerializable(v.tuple[i])
          [] v.kind = "dict" -> \A k \in DOMAIN v.dict : JsonSerializable(v.dict[k])
          [] OTHER -> FALSE
    ))

RECURSIVE json_loads_dumps(_)
\* json.loads(json.dumps(v)): arrays come back as lists
json_loads_dumps(v0) ==
    Value(v0, LAMBDA v :
    (
        CASE v.kind = "list" -> PyList([i \in DOMAIN v.list |-> json_loads_dumps(v.list[i])])
          [] v.kind = "tuple" -> PyList([i \in DOMAIN v.tuple |-> json_loads_dumps(v.tuple[i])])
          [] v.kind = "dict" -> PyDict([k \in DOMAIN v.dict |-> json_loads_dumps(v.dict[k])])
          [] OTHER -> v
    ))

\* {k: F(v) for k, v in d.items()}
MapDict(d0, F(_)) ==
    Value(d0, LAMBDA d :
    (
        IF IsRaised(d) THEN d
        ELSE IF d.kind # "dict" THEN Raised("AttributeError")
        ELSE Value([k \in DOMAIN d.dict |-> F(d.dict[k])], LAMBDA mapped :
                 LET failed == {k \in DOMAIN mapped : IsRaised(mapped[k])} IN
                 IF failed # {} THEN mapped[CHOOSE k \in failed : TRUE]
                 ELSE PyDict(mapped))
    ))

\* d[field] = EnumCls(d[field]); Cls(**d)
Rebuild(cls, field, enumcls, d) ==
    Construct(cls, Assign(d, field, EnumOf(enumcls, Item(d, field))))

\* d[field] = value if test else d unchanged, an exception in test winning
AssignIf(test0, d, field, value) ==
    Value(test0, LAMBDA test :
    (
        IF IsRaised(test) THEN test
        ELSE IF Truthy(test) THEN Assign(d, field, value)
        ELSE d
    ))

\* load_from_dict, the services loop (src 1021-1035)
load_service(s_data) ==
    LET vulns == MapList(Item(s_data, "vulnerabilities"),
                         LAMBDA v : Rebuild("Vulnerability", "exploit_type", "ExploitType", v))
        s1 == Assign(s_data, "vulnerabilities", vulns)
        enc == Get(s_data, "encryption", PyNone)
        s2 == AssignIf(enc, s1, "encryption",
                       Rebuild("EncryptedData", "encryption_type", "EncryptionType", enc))
        s3 == Assign(s2, "employees_with_access",
                     MapList(Get(s_data, "employees_with_access", PyList(<< >>)),
                             LAMBDA e : Construct("Employee", e)))
    IN Construct("Service", s3)

\* load_from_dict, the body of the nodes loop (src 1011-1047)
load_node(n_data) ==
    LET n1 == Assign(n_data, "network_type",
                     EnumOf("NetworkType", Item(n_data, "network_type")))
        n2 == Assign(n1, "discovered_services", SetOf(Item(n_data, "discovered_services")))
        n3 == Assign(n2, "discovered_vulns", SetOf(Item(n_data, "discovered_vulns")))
        last == Get(n_data, "last_attack_time", PyNone)
        n4 == AssignIf(last, n3, "last_attack_time", fromisoformat(last))
        n5 == Assign(n4, "services", MapList(Item(n_data, "services"), load_service))
        n6 == Assign(n5, "honeypots",
                     MapList(Get(n_data, "honeypots", PyList(<< >>)),
                             LAMBDA h : Construct("Honeypot", h)))
        n7 == Assign(n6, "employees",
                     MapList(Get(n_data, "employees", PyList(<< >>)),
                             LAMBDA e : Construct("Employee", e)))
        n8 == Assign(n7, "encrypted_traffic",
                     MapList(Get(n_data, "encrypted_traffic", PyList(<< >>)),
                             LAMBDA t : Rebuild("EncryptedData", "encryption_type",
                                                "EncryptionType", t)))
    IN Construct("NetworkNode", n8)

\* load_from_dict, the player (src 1049-1085)
load_player(p_data) ==
    LET p1 == Assign(p_data, "skills", Construct("PlayerSkills", Item(p_data, "skills")))
        p2 == Assign(p1, "discovered_nodes", SetOf(Item(p_data, "discovered_nodes")))
        p3 == Assign(p2, "compromised_nodes", SetOf(Item(p_data, "compromised_nodes")))
        p4 == Assign(p3, "completed_contracts", SetOf(Item(p_data, "completed_contracts")))
        p5 == Assign(p4, "known_exploits", SetOf(Item(p_data, "known_exploits")))
        p6 == Assign(p5, "game_time", fromisoformat(Item(p_data, "game_time")))
        p7 == Assign(p6, "botnets",
                     MapList(Get(p_data, "botnets", PyList(<< >>)),
                             LAMBDA b : Construct("Botnet", b)))
        p8 == Assign(p7, "factions",
                     MapDict(Get(p_data, "factions", PyDict(NoFields)),
                             LAMBDA f : Construct("Faction", f)))
        p9 == Assign(p8, "inventory",
                     MapList(Get(p_data, "inventory", PyList(<< >>)),
                             LAMBDA t : Rebuild("Tool", "tool_type", "ToolType", t)))
        p10 == Assign(p9, "hardware",
                      MapDict(Get(p_data, "hardware", PyDict(NoFields)),
                              LAMBDA h : Rebuild("HardwareComponent", "htype",
                                                 "HardwareType", h)))
        p11 == Assign(p10, "active_events",
                      MapList(Get(p_data, "active_events", PyList(<< >>)),
                              LAMBDA e : Rebuild("WorldEvent", "etype", "EventType", e)))
    IN Construct("PlayerState", p11)

\* timedelta(seconds=x)
timedelta_of_seconds(v0) ==
    Value(v0, LAMBDA v :
    (
        IF IsRaised(v) THEN v
        ELSE IF v.kind = "float" THEN PyTimedelta(v.x \div 3600)
        ELSE IF v.kind = "int" THEN PyTimedelta(v.n \div 3600)
        ELSE Raised("TypeError")
    ))

\* load_from_dict, the body of the contracts loop (src 1089-1094)
load_contract(c_data) ==
    LET deadline == Get(c_data, "deadline", PyNone)
        c1 == AssignIf(deadline, c_data, "deadline", fromisoformat(deadline))
        limit == Get(c_data, "time_limit", PyNone)
        c2 == IF IsRaised(limit) THEN limit
              ELSE IF limit.kind # "none"
              THEN Assign(c1, "time_limit", timedelta_of_seconds(limit))
              ELSE c1
    IN Construct("Contract", c2)

\* load_from_dict, the body of the rivals loop (src 1098-1100)
load_rival(r_data) ==
    Construct("RivalHacker",
              Assign(r_data, "last_seen", fromisoformat(Item(r_data, "last_seen"))))

\* the nodes dict built by state.network.nodes[node.uid] = node
NodesByUid(node_list0) ==
    Value(node_list0, LAMBDA node_list :
    (
        LET q == node_list.list
            uid(i) == q[i].fields.uid.s
        IN PyDict([u \in {uid(i) : i \in DOMAIN q} |->
                     q[CHOOSE i \in DOMAIN q : uid(i) = u /\ \A j \in DOMAIN q : uid(j) = u => j <= i]])
    ))

\* GameState.load_from_dict (src 999-1113); drawn_seed is the random seed
\* taken when the save has none
load_from_dict(data, drawn_seed) ==
    LET world_seed == Get(data, "world_seed", PyInt(drawn_seed))
        node_list == MapList(Item(data, "nodes"), load_node)
        the_player == load_player(Item(data, "player"))
        the_contracts == MapList(Get(data, "contracts", PyList(<< >>)), load_contract)
        the_rivals == MapList(Get(data, "rivals", PyList(<< >>)), load_rival)
        event_log == Get(data, "game_events", PyList(<< >>))
        market_tools == MapList(Get(data, "black_market", PyList(<< >>)),
                                LAMBDA t : Rebuild("Tool", "tool_type", "ToolType", t))
    IN Value(<< world_seed, node_list, the_player, the_contracts, the_rivals,
                event_log, market_tools >>, LAMBDA parts :
           LET failed == {i \in DOMAIN parts : IsRaised(parts[i])} IN
           IF failed # {} THEN parts[CHOOSE i \in failed : \A j \in failed : i <= j]
           ELSE [kind |-> "GameState", player |-> parts[3], nodes |-> NodesByUid(parts[2]),
                 contracts |-> parts[4], rivals |-> parts[5],
                 world |-> [seed |-> parts[1], event_log |-> parts[6],
                            black_market_tools |-> parts[7]]])

\* the save file: absent, unreadable (not gzip, not JSON), or a JSON document
NoFile == [content |-> "absent", doc |-> PyNone, lacks |-> << "nothing", "" >>]

CorruptFile == [content |-> "corrupt", doc |-> PyNone, lacks |-> << "nothing", "" >>]

JsonFile(doc) == [content |-> "json", doc |-> doc, lacks |-> << "nothing", "" >>]

\* what may happen to the write of save_game: it succeeds, gzip.open fails
\* (the file is left as it was), or f.write fails after the file was truncated
SaveOutcomes == {"written", "open_fails", "write_fails"}

\* SaveManager.save_game (src 383-427): the file after the call and the
\* value returned
save_game(state, file, io) ==
    LET node_values == [i \in DOMAIN ListOfSet(DOMAIN state.nodes.dict) |->
                          state.nodes.dict[ListOfSet(DOMAIN state.nodes.dict)[i]]]
        data == PyDict(
            [player |-> asdict(state.player),
             nodes |-> MapList(PyList(node_values), asdict),
             contracts |-> MapList(state.contracts, asdict),
             rivals |-> MapList(state.rivals, asdict),
             world_seed |-> state.world.seed,
             game_events |-> state.world.event_log,
             black_market |-> MapList(state.world.black_market_tools, asdict)])
    IN Value(deep_convert(data), LAMBDA serializable_data :
           IF ~JsonSerializable(serializable_data) \/ io = "open_fails"
           THEN [file |-> file, result |-> PyBool(FALSE)]
           ELSE IF io = "write_fails"
           THEN [file |-> CorruptFile, result |-> PyBool(FALSE)]
           ELSE [file |-> JsonFile(json_loads_dumps(serializable_data)),
                 result |-> PyBool(TRUE)])

\* SaveManager.load_game (src 429-447) with the compressed file and the old
\* uncompressed one: <<data, whether a failure was reported>>
load_game(file, old_file) ==
    IF file.content = "json" THEN << file.doc, FALSE >>
    ELSE IF file.content = "corrupt" THEN << PyNone, TRUE >>
    ELSE IF old_file.content = "json" THEN << old_file.doc, FALSE >>
    ELSE IF old_file.content = "corrupt" THEN << PyNone, TRUE >>
    ELSE << PyNone, FALSE >>

\* the game objects of a model state as Python objects
PyTool(name) ==
    PyObj("Tool",
          [name |-> PyStr(name),
           tool_type |-> Member("ToolType", ToolCatalog[name].tool_type),
           cost |-> PyInt(ToolCatalog[name].cost),
           effectiveness |-> PyFloat(ToolCatalog[name].effectiveness),
           description |-> PyStr("tool"),
           level_requirement |-> PyInt(ToolCatalog[name].level_requirement),
           stealth_penalty |-> PyFloat(0)])

PyBotnet(b) ==
    PyObj("Botnet", [size |-> PyInt(b.size), quality |-> PyFloat(b.quality),
                     maintenance_cost |-> PyInt(b.maintenance_cost),
                     ddos_power |-> PyInt(b.ddos_power),
                     detected_nodes |-> PyInt(b.detected_nodes)])

PyWorldEvent(e) ==
    PyObj("WorldEvent", [name |-> PyStr(e.etype), etype |-> Member("EventType", e.etype),
                         duration |-> PyInt(e.duration),
                         multiplier |-> PyFloat(e.multiplier),
                         description |-> PyStr("event"),
                         target_faction |-> PyNone, target_network |-> PyNone])

\* GameState.__init__ (src 936-941): the hardware key and its HardwareType
HardwareTypeOfKey == [CPU |-> "CPU", RAM |-> "RAM", Storage |-> "STORAGE", Cooling |-> "COOLING"]

PyHardware(key, bonus) ==
    PyObj("HardwareComponent",
          [name |-> PyStr(key), htype |-> PyEnum("HardwareType", HardwareTypeOfKey[key]),
           level |-> PyInt(1), cost |-> PyInt(0), bonus |-> PyFloat(bonus),
           description |-> PyStr("component")])

PyFaction(name, reputation, hostile) ==
    PyObj("Faction", [name |-> PyStr(name), reputation |-> PyInt(reputation),
                      hostile |-> PyBool(hostile)])

\* GameState.__init__ (src 944-950)
StartingFactions ==
    PyDict(("White Hat Alliance" :> PyFaction("White Hat Alliance", 0, FALSE))
           @@ ("Black Hat Syndicate" :> PyFaction("Black Hat Syndicate", 0, FALSE))
           @@ ("Grey Market Traders" :> PyFaction("Grey Market Traders", 0, FALSE))
           @@ ("Corporate Security" :> PyFaction("Corporate Security", 0 - 20, TRUE))
           @@ ("Law Enforcement" :> PyFaction("Law Enforcement", 0 - 50, TRUE)))

StrSet(S) == PySet({PyStr(x) : x \in S})

StrList(q) == PyList([i \in DOMAIN q |-> PyStr(q[i])])

\* the PlayerState object of the model player p, game_time being instant t
PyPlayer(p, t) ==
    PyObj("PlayerState",
          [handle |-> PyStr("ghost"), level |-> PyInt(p.level),
           experience |-> PyInt(p.experience), credits |-> PyInt(p.credits),
           reputation |-> PyInt(p.reputation), heat_level |-> PyInt(p.heat_level),
           skills |-> PyObj("PlayerSkills", [k \in DOMAIN p.skills |-> PyInt(p.skills[k])]),
           discovered_nodes |-> StrSet(p.discovered_nodes),
           compromised_nodes |-> StrSet(p.compromised_nodes),
           current_location |-> PyStr(p.current_location),
           inventory |-> PyList([i \in DOMAIN ListOfSet(p.inventory) |->
                                   PyTool(ListOfSet(p.inventory)[i])]),
           active_contracts |-> PyList([i \in DOMAIN ListOfSet(p.active_contracts) |->
                                          PyStr(ToString(ListOfSet(p.active_contracts)[i]))]),
           completed_contracts |-> StrSet({}),
           game_time |-> PyDatetime(t), total_playtime |-> PyFloat(0),
           botnets |-> PyList([i \in DOMAIN p.botnets |-> PyBotnet(p.botnets[i])]),
           factions |-> StartingFactions,
           identity_heat |-> PyInt(p.identity_heat),
           known_exploits |-> StrSet(p.known_exploits),
           proxy_chains |-> PyInt(p.proxy_chains), safe_houses |-> PyList(<< >>),
           under_investigation |-> PyBool(p.under_investigation),
           investigation_progress |-> PyFloat(p.investigation_progress),
           hardware |-> PyDict([k \in DOMAIN p.hardware |-> PyHardware(k, p.hardware[k])]),
           active_events |-> PyList([i \in DOMAIN p.active_events |->
                                       PyWorldEvent(p.active_events[i])]),
           bounced_nodes |-> StrList(p.bounced_nodes)])

PyVulnerability(v) ==
    PyObj("Vulnerability",
          [name |-> PyStr(v.exploit_type),
           exploit_type |-> Member("ExploitType", v.exploit_type),
           severity |-> PyFloat(v.severity), patch_level |-> PyInt(v.patch_level),
           discovery_difficulty |-> PyFloat(v.discovery_difficulty),
           firewall_damage |-> PyTuple(<< PyInt(v.dmg_lo), PyInt(v.dmg_hi) >>),
           trace_cost |-> PyInt(v.trace_cost),
           success_rate_base |-> PyFloat(v.success_rate_base),
           requires_tool |-> IF v.requires_tool = "none" THEN PyNone
                             ELSE PyStr(v.requires_tool)])

PyEmployee(e) ==
    PyObj("Employee",
          [name |-> PyStr("employee"), email |-> PyStr("employee@corp"),
           department |-> PyStr("IT"), access_level |-> PyInt(e.access_level),
           social_media_activity |-> PyFloat(e.social_media_activity),
           phishing_susceptibility |-> PyFloat(e.phishing_susceptibility),
           compromised |-> PyBool(e.compromised)])

PyHoneypot(h) ==
    PyObj("Honeypot", [port |-> PyInt(8080), fake_service |-> PyStr("ssh"),
                       detection_chance |-> PyFloat(30),
                       trace_increase |-> PyInt(h.trace_increase)])

PyEncryptedData ==
    PyObj("EncryptedData", [encryption_type |-> PyEnum("EncryptionType", "AES_256"),
                            data_size |-> PyInt(2048), value |-> PyInt(900),
                            difficulty |-> PyFloat(60), cracked |-> PyBool(FALSE)])

\* the NetworkNode object of the model node n; attacked tells whether the
\* node carries a last_attack_time, an encrypted service and captured traffic
PyNode(uid, n, attacked) ==
    PyObj("NetworkNode",
          [uid |-> PyStr(uid), name |-> PyStr(uid), ip_address |-> PyStr("10.0.0.1"),
           network_type |-> PyEnum("NetworkType", "CORPORATE"),
           security_rating |-> PyInt(n.security_rating),
           firewall_strength |-> PyInt(n.firewall_strength),
           max_firewall |-> PyInt(n.max_firewall), ice_level |-> PyInt(1),
           services |-> PyList([i \in DOMAIN n.services |->
              PyObj("Service",
                    [name |-> PyStr("service"), version |-> PyStr("1.0"),
                     port |-> PyInt(443), state |-> PyStr("open"),
                     vulnerabilities |->
                       PyList([j \in DOMAIN n.services[i].vulnerabilities |->
                                 PyVulnerability(n.services[i].vulnerabilities[j])]),
                     encryption |-> IF attacked THEN PyEncryptedData ELSE PyNone,
                     employees_with_access |->
                       PyList([j \in DOMAIN n.employees |-> PyEmployee(n.employees[j])])])]),
           discovered_services |-> PySet({PyInt(i) : i \in n.discovered_services}),
           discovered_vulns |->
             StrSet({n.services[id[1]].vulnerabilities[id[2]].exploit_type :
                       id \in n.discovered_vulns}),
           compromised |-> PyBool(n.compromised), data_value |-> PyInt(n.data_value),
           trace_progress |-> PyFloat(n.trace_progress),
           trace_speed |-> PyFloat(n.trace_speed),
           last_attack_time |-> IF attacked THEN PyDatetime(2) ELSE PyNone,
           connections |-> StrList(n.connections),
           honeypots |-> PyList([i \in DOMAIN n.honeypots |-> PyHoneypot(n.honeypots[i])]),
           has_siem |-> PyBool(n.has_siem), has_incident_response |-> PyBool(FALSE),
           admin_active |-> PyBool(n.admin_active), admin_skill |-> PyInt(1),
           backdoor_installed |-> PyBool(n.backdoor_installed),
           network_segment |-> PyStr("DMZ"),
           employees |-> PyList([i \in DOMAIN n.employees |-> PyEmployee(n.employees[i])]),
           encrypted_traffic |-> IF attacked THEN PyList(<< PyEncryptedData >>)
                                 ELSE PyList(<< >>)])

PyContract(c, timed) ==
    PyObj("Contract",
          [uid |-> PyStr("contract"), title |-> PyStr("job"), description |-> PyStr("job"),
           target_node_uid |-> PyStr(c.target_node_uid), objective |-> PyStr(c.objective),
           reward |-> PyInt(c.reward), reputation_change |-> PyInt(c.reputation_change),
           time_limit |-> IF timed THEN PyTimedelta(24) ELSE PyNone,
           difficulty |-> PyInt(1), contractor |-> PyStr("fixer"), faction |-> PyNone,
           completed |-> PyBool(c.completed), failed |-> PyBool(FALSE),
           deadline |-> IF timed THEN PyDatetime(3) ELSE PyNone])

PyRival(r) ==
    PyObj("RivalHacker",
          [name |-> PyStr("ZeroCool"), skill_level |-> PyInt(r.skill_level),
           specialization |-> PyStr("Exploitation"),
           active_targets |-> StrList(r.active_targets),
           last_seen |-> PyDatetime(1), hostile |-> PyBool(r.hostile)])

\* the GameState object of a model state
GameStateOf(p, net, cs, rv, attacked) ==
    [kind |-> "GameState",
     player |-> PyPlayer(p, IF attacked THEN 2 ELSE 1),
     nodes |-> PyDict([n \in DOMAIN net |-> PyNode(n, net[n], attacked)]),
     contracts |-> PyList([i \in DOMAIN cs |-> PyContract(cs[i], attacked)]),
     rivals |-> PyList([i \in DOMAIN rv |-> PyRival(rv[i])]),
     world |-> [seed |-> PyInt(42),
                event_log |-> IF attacked THEN StrList(<< "[2077-01-01 06:30:00] scan" >>)
                              ELSE PyList(<< >>),
                black_market_tools |->
                  PyList([i \in DOMAIN ListOfSet(ToolNames) |-> PyTool(ListOfSet(ToolNames)[i])])]]

\* GameState() as main builds it (src 2870, 2873)
NewGameState ==
    GameStateOf([NewPlayer EXCEPT !.current_location = "n1", !.discovered_nodes = {"n1"}],
                SampleNetwork(80),
                << Contract(SampleNetwork(80), "n2", "steal_data", 12) >>,
                << RivalHacker(1) >>, FALSE)

\* the players whose games are saved: a new one, one in the middle of an
\* attack, one under investigation with purchases made
SavedPlayers ==
    { [NewPlayer EXCEPT !.current_location = "n1", !.discovered_nodes = {"n1"}],
      [NewPlayer EXCEPT !.current_location = "n2", !.discovered_nodes = {"n1", "n2"},
                        !.compromised_nodes = {"n1"}, !.bounced_nodes = << "n1" >>,
                        !.botnets = SessionBotnet, !.proxy_chains = 2,
                        !.inventory = {"ExploitKit", "PortScannerPro"},
                        !.known_exploits = {"EternalBlue v1"},
                        !.active_contracts = {1},
                        !.active_events = << WorldEvent("police_crackdown", 24),
                                             WorldEvent("zero_day_leak", 6) >>],
      [NewPlayer EXCEPT !.current_location = "n1", !.discovered_nodes = {"n1", "n2"},
                        !.level = 4, !.experience = 120, !.credits = 300,
                        !.identity_heat = 60, !.heat_level = 45,
                        !.under_investigation = TRUE,
                        !.investigation_progress = 40 * TraceUnit,
                        !.hardware = [StartingHardware EXCEPT !.Cooling = 13]] }

SavedNetworks ==
    { SampleNetwork(80),
      [SampleNetwork(80) EXCEPT !["n1"] = CompromisedEntry(@),
                                !["n2"] = ScannedTarget(@, 39 * TraceUnit)] }

SavedStates ==
    {GameStateOf(p, net, << Contract(net, "n2", "steal_data", 12) >>,
                 << RivalHacker(1) >>, attacked) :
       p \in SavedPlayers, net \in SavedNetworks, attacked \in BOOLEAN}

\* del d[key]
Without(d0, key) ==
    Value(d0, LAMBDA d :
    (
        PyDict([k \in DOMAIN d.dict \ {key} |-> d.dict[k]])
    ))

\* d with every member of the list d[key] replaced by F of it
WithEach(d0, key, F(_)) ==
    Value(d0, LAMBDA d :
    (
        Assign(d, key, PyList([i \in DOMAIN d.dict[key].list |-> F(d.dict[key].list[i])]))
    ))

\* a save written by another version or edited by hand: the document doc
\* without the field key of the player, of every node, of every service, or
\* of the document itself
LackingField(doc, level, key) ==
    CASE level = "player" -> Assign(doc, "player", Without(doc.dict.player, key))
      [] level = "node" -> WithEach(doc, "nodes", LAMBDA n : Without(n, key))
      [] level = "service" ->
           WithEach(doc, "nodes",
                    LAMBDA n : WithEach(n, "services", LAMBDA s : Without(s, key)))
      [] OTHER -> Without(doc, key)

\* the fields a save may lack: those load_from_dict reads with a default or
\* a test, and one that every save holds at each level
DroppedFields ==
    [ player |-> {"botnets", "factions", "inventory", "hardware", "active_events",
                  "known_exploits", "skills"},
      node |-> {"honeypots", "employees", "encrypted_traffic", "last_attack_time",
                "services"},
      service |-> {"encryption", "employees_with_access", "vulnerabilities"},
      top |-> {"contracts", "rivals", "game_events", "black_market", "world_seed",
               "nodes"} ]

\* a document in which the network_type of every node is no NetworkType value
UnknownEnumTag(doc) ==
    WithEach(doc, "nodes", LAMBDA n : Assign(n, "network_type", PyStr("orbital")))

\* the documents save_game writes
WrittenDocs == {save_game(s, NoFile, "written").file.doc : s \in SavedStates}

LackingFiles ==
    UNION {{[JsonFile(LackingField(doc, level, key)) EXCEPT !.lacks = << level, key >>] :
              doc \in WrittenDocs, key \in DroppedFields[level]} :
             level \in DOMAIN DroppedFields}

\* the files startup may find
StartupFiles ==
    {NoFile, CorruptFile}
    \cup {JsonFile(doc) : doc \in WrittenDocs}
    \cup LackingFiles
    \cup {[JsonFile(UnknownEnumTag(doc)) EXCEPT !.lacks = << "enum", "network_type" >>] :
            doc \in WrittenDocs}
    \cup {[JsonFile(PyList(<< PyInt(1) >>)) EXCEPT !.lacks = << "document", "" >>],
          [JsonFile(PyDict(NoFields)) EXCEPT !.lacks = << "document", "" >>]}

\* the seeds random.randint(0, 999999) may draw (src 1005), its two ends
DrawnSeeds == {0, 999999}

\* the old uncompressed file netrunner_save.json, as an earlier version left it
LegacyFile == JsonFile(save_game(NewGameState, NoFile, "written").file.doc)

\* the old files found next to the compressed file f
LegacyFiles(f) ==
    IF f.lacks = << "nothing", "" >> THEN {NoFile, CorruptFile, LegacyFile} ELSE {NoFile}

\* status -1: the process is running
NoSaveObs ==
    [op |-> "none", file |-> NoFile, old_file |-> NoFile, world |-> PyNone,
     saved |-> PyNone, data |-> PyNone,
     result |-> "none", reported |-> FALSE, answer |-> "none", exc |-> "none",
     cause |-> "none", status |-> 0 - 1, saves |-> 0, interrupts |-> 0,
     io |-> "none", save_result |-> PyNone]

\* the program is either about to start with some file on disk, or running
\* a game with no file written yet
InitSave ==
    /\ steps = 0
    /\ \/ /\ pc = "start"
          /\ player = PyNone /\ nodes = PyNone /\ contracts = PyNone /\ rivals = PyNone
          /\ \E f \in StartupFiles : \E o \in LegacyFiles(f) :
               obs = [NoSaveObs EXCEPT !.file = f, !.old_file = o]
       \/ /\ pc = "playing"
          /\ \E s \in SavedStates :
               /\ player = s.player /\ nodes = s.nodes
               /\ contracts = s.contracts /\ rivals = s.rivals
               /\ \E o \in {NoFile, LegacyFile} :
                    obs = [NoSaveObs EXCEPT !.world = s.world, !.old_file = o]

\* main (src 2857-2875): load_game, the question, load_from_dict or GameState()
Startup ==
    /\ pc = "start"
    /\ LET save_data == load_game(obs.file, obs.old_file)[1]
           reported == load_game(obs.file, obs.old_file)[2]
       IN \E choice \in IF Truthy(save_data) THEN {"y", "n"} ELSE {"none"} :
          \E drawn_seed \in DrawnSeeds :
          \E state \in {IF choice = "y" THEN load_from_dict(save_data, drawn_seed)
                        ELSE NewGameState} :
               IF IsRaised(state)
               THEN /\ pc' = "crashed"
                    /\ obs' = [obs EXCEPT !.op = "startup", !.result = "raised",
                                          !.reported = reported, !.answer = choice,
                                          !.exc = state.exc, !.data = save_data,
                                          !.cause = "exception", !.status = 1,
                                          !.saves = 0, !.interrupts = 0,
                                          !.io = "none", !.save_result = PyNone]
                    /\ UNCHANGED << player, nodes, contracts, rivals >>
               ELSE /\ pc' = "playing"
                    /\ player' = state.player /\ nodes' = state.nodes
                    /\ contracts' = state.contracts /\ rivals' = state.rivals
                    /\ obs' = [obs EXCEPT !.op = "startup",
                                          !.result = IF choice = "y" THEN "loaded"
                                                     ELSE "new_game",
                                          !.reported = reported, !.answer = choice,
                                          !.exc = "none", !.world = state.world,
                                          !.data = save_data,
                                          !.cause = "none", !.status = 0 - 1,
                                          !.saves = 0, !.interrupts = 0,
                                          !.io = "none", !.save_result = PyNone]
    /\ UNCHANGED steps

\* the GameState the running program holds
CurrentGameState ==
    [kind |-> "GameState", player |-> player, nodes |-> nodes,
     contracts |-> contracts, rivals |-> rivals, world |-> obs.world]

\* obs after a call of save_game that returned
AfterSave(io, cause) ==
    LET r == save_game(CurrentGameState, obs.file, io) IN
    [obs EXCEPT !.op = "save", !.file = r.file, !.io = io, !.save_result = r.result,
                !.saved = IF Truthy(r.result) THEN CurrentGameState ELSE PyNone,
                !.saves = @ + 1, !.cause = cause, !.status = 0]

\* main (src 2878-2885): Disconnect makes main_menu return, the game is
\* saved, main returns and the process ends with status 0
SaveAndExit ==
    /\ pc = "playing"
    /\ pc' = "exited"
    /\ \E io \in SaveOutcomes : obs' = AfterSave(io, "quit")
    /\ UNCHANGED << player, nodes, contracts, rivals, steps >>

\* the files a save_game cut short by KeyboardInterrupt may leave
CutShort(file) == {file, CorruptFile}

\* SIGINT while main_menu runs or while the game is saved on exit:
\* KeyboardInterrupt is raised (save_game catches Exception only) and
\* main's handler is entered (src 2887)
Interrupt ==
    /\ pc = "playing"
    /\ pc' = "interrupted"
    /\ \/ obs' = [obs EXCEPT !.op = "interrupt", !.interrupts = @ + 1]
       \/ \E f \in CutShort(obs.file) :
            obs' = [obs EXCEPT !.op = "interrupt", !.interrupts = @ + 1,
                               !.saves = @ + 1, !.file = f, !.saved = PyNone]
    /\ UNCHANGED << player, nodes, contracts, rivals, steps >>

\* main's handler (src 2887-2892): the game is saved, sys.exit(0)
EmergencySave ==
    /\ pc = "interrupted"
    /\ pc' = "exited"
    /\ \E io \in SaveOutcomes : obs' = AfterSave(io, "interrupt")
    /\ UNCHANGED << player, nodes, contracts, rivals, steps >>

\* the statuses of a Python process ended by an uncaught KeyboardInterrupt
UncaughtInterruptStatus == {1, 130}

\* SIGINT while the handler runs, before it calls save_game or inside the
\* call: nothing catches it and the process ends
InterruptHandler ==
    /\ pc = "interrupted"
    /\ pc' = "exited"
    /\ \E status \in UncaughtInterruptStatus :
         \/ obs' = [obs EXCEPT !.op = "interrupt", !.interrupts = @ + 1,
                               !.cause = "interrupt", !.status = status]
         \/ \E f \in CutShort(obs.file) :
              obs' = [obs EXCEPT !.op = "interrupt", !.interrupts = @ + 1,
                                 !.cause = "interrupt", !.status = status,
                                 !.saves = @ + 1, !.file = f, !.saved = PyNone]
    /\ UNCHANGED << player, nodes, contracts, rivals, steps >>

\* the program is started again: nothing of the last run is in memory
Relaunch ==
    /\ pc = "exited"
    /\ pc' = "start"
    /\ player' = PyNone /\ nodes' = PyNone /\ contracts' = PyNone /\ rivals' = PyNone
    /\ obs' = [obs EXCEPT !.op = "relaunch", !.world = PyNone, !.data = PyNone,
                          !.result = "none", !.reported = FALSE, !.answer = "none",
                          !.exc = "none", !.cause = "none", !.status = 0 - 1,
                          !.saves = 0, !.interrupts = 0, !.io = "none",
                          !.save_result = PyNone]
    /\ UNCHANGED steps

NextSave ==
    Startup \/ SaveAndExit \/ Interrupt \/ EmergencySave \/ InterruptHandler \/ Relaunch

SpecSave == InitSave /\ [][NextSave]_vars

\* the state was loaded from the file the last exit wrote
LoadedWhatWasSaved ==
    /\ obs.op = "startup" /\ obs.result = "loaded"
    /\ obs.saved.kind = "GameState"

RECURSIVE TuplesAsLists(_)
\* v with every tuple in it replaced by the list of its members
TuplesAsLists(v0) ==
    Value(v0, LAMBDA v :
    (
        CASE v.kind = "obj" -> PyObj(v.cls, [k \in DOMAIN v.fields |-> TuplesAsLists(v.fields[k])])
          [] v.kind = "dict" -> PyDict([k \in DOMAIN v.dict |-> TuplesAsLists(v.dict[k])])
          [] v.kind = "list" -> PyList([i \in DOMAIN v.list |-> TuplesAsLists(v.list[i])])
          [] v.kind = "tuple" -> PyList([i \in DOMAIN v.tuple |-> TuplesAsLists(v.tuple[i])])
          [] v.kind = "set" -> PySet({TuplesAsLists(x) : x \in v.set})
          [] OTHER -> v
    ))

\* C18: after save_game and load_from_dict of what it wrote, the player state
\* and the node states are deeply equal to the saved ones: sets as sets,
\* enum members, instants, and every nested collection field for field,
\* the firewall_damage pair of a vulnerability included
C18_SaveLoadRoundTrip ==
    LoadedWhatWasSaved => (player = obs.saved.player /\ nodes = obs.saved.nodes)

\* the loaded player equals the saved one, and the loaded nodes differ from
\* the saved ones in a firewall_damage that was a tuple and is a list
C18_FirewallDamageComesBackAsList ==
    /\ LoadedWhatWasSaved
    /\ player = obs.saved.player
    /\ nodes # obs.saved.nodes
    /\ LET loaded == nodes.dict["n2"].fields.services.list[1].fields.vulnerabilities.list[1]
           saved == obs.saved.nodes.dict["n2"].fields.services.list[1].fields.vulnerabilities.list[1]
       IN /\ saved.fields.firewall_damage = PyTuple(<< PyInt(15), PyInt(30) >>)
          /\ loaded.fields.firewall_damage = PyList(<< PyInt(15), PyInt(30) >>)

\* the round trip is exact but for tuples, which come back as lists, and
\* it gives back the contracts, the rivals and the seed as well
RoundTripUpToTuples ==
    LoadedWhatWasSaved =>
        /\ TuplesAsLists(nodes) = TuplesAsLists(obs.saved.nodes)
        /\ contracts = obs.saved.contracts /\ rivals = obs.saved.rivals
        /\ obs.world = obs.saved.world

\* C19: startup never raises on the save file: without a file a new game
\* starts; an unreadable file, or a document that cannot be reconstructed
\* (a missing required key, an unknown enum tag), is reported and a new
\* game starts
C19_StartupNeverRaises ==
    /\ pc # "crashed"
    /\ obs.op = "startup" =>
         /\ (obs.file.content = "absent" /\ obs.old_file.content = "absent")
              => obs.result = "new_game"
         /\ obs.file.content = "corrupt" => (obs.result = "new_game" /\ obs.reported)

\* the player asked for the save to be loaded, a node of it carries an
\* unknown network_type, and the ValueError left main
C19_UnknownEnumTagRaisesOutOfStartup ==
    /\ pc = "crashed" /\ obs.op = "startup" /\ obs.answer = "y"
    /\ obs.file.lacks = << "enum", "network_type" >>
    /\ obs.exc = "ValueError" /\ ~obs.reported

\* load_game itself never raises: an absent file starts a new game in
\* silence, an unreadable one is reported and a new game starts
LoadGameFallsBack ==
    (obs.op = "startup" /\ obs.file.content # "json" /\ obs.old_file.content # "json") =>
        /\ pc = "playing" /\ obs.result = "new_game"
        /\ obs.reported = (obs.file.content = "corrupt"
                            \/ (obs.file.content = "absent"
                                  /\ obs.old_file.content = "corrupt"))

\* the optional or nullable fields of a save
OptionalFields ==
    [ player |-> {"botnets", "factions", "inventory", "hardware", "active_events",
                  "known_exploits"},
      node |-> {"honeypots", "employees", "encrypted_traffic", "last_attack_time"},
      service |-> {"encryption", "employees_with_access"},
      top |-> {"contracts", "rivals", "game_events", "black_market", "world_seed"} ]

\* the save that was loaded lacked one of the optional fields
LoadedWithoutOptionalField ==
    /\ obs.op = "startup" /\ obs.answer = "y"
    /\ obs.file.lacks[1] \in DOMAIN OptionalFields
    /\ obs.file.lacks[2] \in OptionalFields[obs.file.lacks[1]]

\* an empty collection or None
EmptyOrNone(v0) ==
    Value(v0, LAMBDA v :
    (
        v.kind \in {"none", "list", "set", "dict", "tuple"} /\ ~Truthy(v)
    ))

\* the values the field key holds in the loaded game, at its level
LoadedValues(level, key) ==
    CASE level = "player" -> {player.fields[key]}
      [] level = "node" -> {nodes.dict[n].fields[key] : n \in DOMAIN nodes.dict}
      [] level = "service" ->
           UNION {{nodes.dict[n].fields.services.list[i].fields[key] :
                     i \in DOMAIN nodes.dict[n].fields.services.list} :
                    n \in DOMAIN nodes.dict}
      [] OTHER -> {CASE key = "contracts" -> contracts
                     [] key = "rivals" -> rivals
                     [] key = "game_events" -> obs.world.event_log
                     [] key = "black_market" -> obs.world.black_market_tools
                     [] OTHER -> obs.world.seed}

\* C20: loading a save that lacks an optional or nullable field of the
\* player, of a node, of a service or of the top level never raises, and
\* the field is an empty collection or None in the loaded game
C20_AbsentFieldsNeverRaise ==
    LoadedWithoutOptionalField =>
        /\ obs.result = "loaded"
        /\ \A v \in LoadedValues(obs.file.lacks[1], obs.file.lacks[2]) : EmptyOrNone(v)

\* the save lacked the player's known_exploits and loading it raised KeyError
C20_AbsentKnownExploitsRaises ==
    /\ LoadedWithoutOptionalField
    /\ obs.file.lacks = << "player", "known_exploits" >>
    /\ obs.result = "raised" /\ obs.exc = "KeyError"

\* of the optional fields, only the absence of known_exploits, of
\* last_attack_time and of world_seed is not met with an empty value
AbsentFieldsMetButThree ==
    (LoadedWithoutOptionalField
       /\ obs.file.lacks[2] \notin {"known_exploits", "last_attack_time", "world_seed"})
    => /\ obs.result = "loaded"
       /\ \A v \in LoadedValues(obs.file.lacks[1], obs.file.lacks[2]) : EmptyOrNone(v)

\* C21: when the old uncompressed file holds a save, load_game returns its
\* contents whenever the compressed file supplies none, be it absent or
\* unreadable; a readable compressed file takes precedence
C21_LegacySaveIsFallback ==
    (obs.op = "startup" /\ obs.old_file.content = "json") =>
        obs.data = IF obs.file.content = "json" THEN obs.file.doc ELSE obs.old_file.doc

\* the compressed file is unreadable, the old file holds a save, and
\* load_game reported the failure and returned None: a new game started
C21_CorruptCompressedHidesLegacy ==
    /\ obs.op = "startup"
    /\ obs.file.content = "corrupt" /\ obs.old_file = LegacyFile
    /\ obs.data = PyNone /\ obs.reported /\ obs.result = "new_game"

\* with the compressed file absent the old file is returned, and a readable
\* compressed file is returned whatever the old file holds
LegacyReadWhenCompressedAbsent ==
    obs.op = "startup" =>
        /\ (obs.file.content = "absent" /\ obs.old_file.content = "json")
             => obs.data = obs.old_file.doc
        /\ obs.file.content = "json" => obs.data = obs.file.doc

\* C22: every end of the process by Disconnect or by an interrupt signal
\* comes after a save_game attempt, the interrupt path ends with status 0,
\* and a save that fails returns False without raising
C22_TerminationSavesFirst ==
    pc = "exited" =>
        /\ obs.cause \in {"quit", "interrupt"}
        /\ obs.saves >= 1
        /\ obs.cause = "interrupt" => obs.status = 0
        /\ obs.io \in {"open_fails", "write_fails"} => obs.save_result = PyBool(FALSE)

\* a second SIGINT reached the handler before it called save_game: the
\* process ended without any save attempt and with a status other than 0
C22_SecondInterruptSkipsSave ==
    /\ pc = "exited" /\ obs.cause = "interrupt" /\ obs.interrupts = 2
    /\ obs.saves = 0 /\ obs.status # 0

\* Disconnect and a single interrupt both save before the process ends with
\* status 0, and a failed save returns False
SingleInterruptSaves ==
    (pc = "exited" /\ obs.interrupts <= 1) =>
        /\ obs.saves >= 1 /\ obs.status = 0
        /\ obs.save_result = PyBool(obs.io = "written")

(***************************************************************************)
(* Network generation (specification SpecNet): ProceduralNetwork.__init__, *)
(* generate_network, _create_node and _establish_connections step by step, *)
(* for the first two node types, followed by the choice of the start       *)
(* location and the opening of the network menu.  Two constructions given  *)
(* the same seed are carried side by side: nodes is the first, obs.twin    *)
(* the second; both consume the same draws whenever random.seed received   *)
(* the same value, and each reads its own clock.                           *)
(***************************************************************************)
\* generate_network, node_configs: type, min_security, max_security
NodeConfigs ==
    << [network_type |-> "CORPORATE", min_security |-> 1, max_security |-> 4],
       [network_type |-> "FINANCIAL", min_security |-> 3, max_security |-> 6] >>

\* connection_count = random.randint(2, 5)
ConnectionCounts == 2..5

\* range(random.randint(2, 4)) links between two types
CrossLinkCounts == 2..4

\* the seeds passed to ProceduralNetwork(seed)
SuppliedSeeds == {0, 7}

\* what ten nodes of one type may draw from random.sample, by position in
\* the type's list: two groups of five that pick inside the group, and a ring
SplitSamples ==
    << {2, 3}, {3, 4}, {4, 5}, {1, 5}, {1, 2},
       {7, 8}, {8, 9}, {9, 10}, {6, 10}, {6, 7}, {12}, {} >>

RingSamples ==
    << {2, 3}, {3, 4}, {4, 5}, {5, 6}, {6, 7},
       {7, 8}, {8, 9}, {9, 10}, {1, 10}, {1, 2}, {12}, {} >>

\* the draws explored: the node counts of the two types, the security
\* ratings drawn (both ends of the type's range, or the upper end), the
\* outcomes of random.sample (any, or the listed ones), the seed supplied
\* and the clock of the second construction
GenerationProfiles ==
    {[counts |-> << 3, 2 >>, security |-> "ends", samples |-> << >>,
      seed |-> s, clock |-> t] : s \in SuppliedSeeds, t \in {1, 2}}
    \cup {[counts |-> << 10, 2 >>, security |-> "highest", samples |-> q,
           seed |-> 7, clock |-> 2] : q \in {SplitSamples, RingSamples}}

\* uid = md5(time.time(), random.random()): a function of the clock and of
\* the draw, which the position of the draw in the stream determines
NodeUid(clock, position) == "t" \o ToString(clock) \o "n" \o ToString(position)

\* a network under construction: nodes by uid, and all_nodes as uids
EmptyNetwork == [nodes |-> [u \in {} |-> 0], all_nodes |-> << >>]

\* _create_node (src 560-684) and generate_network's append (src 554-556)
create_node(g, clock, network_type, security) ==
    LET uid == NodeUid(clock, Len(g.all_nodes) + 1)
        node == [uid |-> uid, network_type |-> network_type,
                 security_rating |-> security, connections |-> << >>]
    IN [nodes |-> [u \in DOMAIN g.nodes \cup {uid} |->
                     IF u = uid THEN node ELSE g.nodes[u]],
        all_nodes |-> Append(g.all_nodes, uid)]

\* u.connections.append(v) without the membership test
AppendConnection(net, u, v) == [net EXCEPT ![u].connections = Append(@, v)]

\* if v not in u.connections: u.connections.append(v)
AddConnection(net, u, v) ==
    IF v \in SeqToSet(net[u].connections) THEN net
    ELSE [net EXCEPT ![u].connections = Append(@, v)]

\* the two guarded appends of _establish_connections (src 700-703, 715-718)
\* for the nodes at positions a and b of all_nodes
Link(g, a, b) ==
    LET u == g.all_nodes[a]
        v == g.all_nodes[b]
    IN [g EXCEPT !.nodes = AddConnection(AddConnection(@, u, v), v, u)]

\* by_type[t] as positions of all_nodes
ByType(g, t) == {i \in DOMAIN g.all_nodes : g.nodes[g.all_nodes[i]].network_type = t}

\* potential (src 696) for the node at position i
Potential(g, i) ==
    LET node == g.nodes[g.all_nodes[i]] IN
    {j \in ByType(g, node.network_type) :
        /\ g.all_nodes[j] # node.uid
        /\ g.all_nodes[j] \notin SeqToSet(node.connections)}

RECURSIVE LinkAll(_, _, _)
\* for conn in connections (src 699-703)
LinkAll(g, i, q) ==
    IF q = << >> THEN g ELSE LinkAll(Link(g, i, Head(q)), i, Tail(q))

\* random.sample(potential, size): every subset of that size
Samples(potential, size) == {S \in SUBSET potential : Cardinality(S) = size}

\* the nodes reached from uid u by following connections
RECURSIVE ReachedFrom(_, _)
ReachedFrom(net, seen) ==
    LET next == seen \cup UNION {SeqToSet(net[u].connections) \cap DOMAIN net : u \in seen}
    IN IF next = seen THEN seen ELSE ReachedFrom(net, next)

NoNetObs ==
    [op |-> "none", profile |-> CHOOSE p \in GenerationProfiles : TRUE,
     seed |-> 0, twin_seed |-> 0, twin |-> EmptyNetwork, all_nodes |-> << >>,
     type |-> 1, position |-> 1, links |-> 0]

InitNet ==
    /\ pc = "new" /\ steps = 0
    /\ player = NewPlayer
    /\ nodes = EmptyNetwork.nodes
    /\ contracts = << >> /\ rivals = << >>
    /\ \E p \in GenerationProfiles : obs = [NoNetObs EXCEPT !.profile = p]

\* the network under construction and its twin
First == [nodes |-> nodes, all_nodes |-> obs.all_nodes]

\* ProceduralNetwork.__init__ (src 516-520) in both constructions:
\* self.seed = seed or random.randint(0, 999999); random.seed(self.seed).
\* Generators seeded differently draw different streams, which are not
\* followed further.
NetConstruct ==
    /\ pc = "new"
    /\ \E s1, s2 \in IF obs.profile.seed # 0 THEN {obs.profile.seed} ELSE DrawnSeeds :
         /\ obs' = [obs EXCEPT !.op = "construct", !.seed = s1, !.twin_seed = s2]
         /\ pc' = IF s1 = s2 THEN "create" ELSE "streams_differ"
    /\ UNCHANGED << player, nodes, contracts, rivals, steps >>

\* security = random.randint(min_sec, max_sec), as explored
SecurityDraws(profile, config) ==
    IF profile.security = "ends" THEN {config.min_security, config.max_security}
    ELSE {config.max_security}

\* generate_network (src 552-556): one pass of the inner loop, in both
\* constructions
NetCreateNode ==
    /\ pc = "create"
    /\ LET config == NodeConfigs[obs.type]
           last_of_type == obs.position = obs.profile.counts[obs.type]
           last == last_of_type /\ obs.type = Len(NodeConfigs)
       IN \E security \in SecurityDraws(obs.profile, config) :
          LET g == create_node(First, 1, config.network_type, security)
              h == create_node(obs.twin, obs.profile.clock, config.network_type, security)
          IN /\ nodes' = g.nodes
             /\ obs' = [obs EXCEPT !.op = "create_node", !.all_nodes = g.all_nodes,
                                   !.twin = h,
                                   !.type = IF last_of_type /\ ~last THEN @ + 1 ELSE @,
                                   !.position = IF last THEN 1
                                                ELSE IF last_of_type THEN 1 ELSE @ + 1]
             /\ pc' = IF last THEN "within" ELSE "create"
    /\ UNCHANGED << player, contracts, rivals, steps >>

\* _establish_connections (src 693-703): one pass of the loop over the
\* nodes of a type, in both constructions; obs.position is the node's
\* position in all_nodes
NetConnectWithin ==
    /\ pc = "within"
    /\ LET i == obs.position
           potential == Potential(First, i)
       IN \E connection_count \in ConnectionCounts :
          \E S \in Samples(potential, Min(connection_count, Cardinality(potential))) :
            /\ obs.profile.samples # << >> => S = obs.profile.samples[i]
            /\ LET g == LinkAll(First, i, ListOfSet(S))
                   h == LinkAll(obs.twin, i, ListOfSet(S))
               IN /\ nodes' = g.nodes
                  /\ obs' = [obs EXCEPT !.op = "connect_within", !.twin = h,
                                        !.position = IF i = Len(obs.all_nodes) THEN 1
                                                     ELSE i + 1]
                  /\ pc' = IF i = Len(obs.all_nodes) THEN "across" ELSE "within"
    /\ UNCHANGED << player, contracts, rivals, steps >>

\* _establish_connections (src 711): for _ in range(random.randint(2, 4))
NetAcrossCount ==
    /\ pc = "across"
    /\ \E n \in CrossLinkCounts : obs' = [obs EXCEPT !.op = "across_count", !.links = n]
    /\ pc' = "linking"
    /\ UNCHANGED << player, nodes, contracts, rivals, steps >>

\* _establish_connections (src 712-718): one pass of the innermost loop for
\* the two types, in both constructions
NetAcrossLink ==
    /\ pc = "linking"
    /\ \E a \in ByType(First, NodeConfigs[1].network_type),
          b \in ByType(First, NodeConfigs[2].network_type) :
         /\ nodes' = Link(First, a, b).nodes
         /\ obs' = [obs EXCEPT !.op = "across_link", !.twin = Link(@, a, b),
                               !.links = @ - 1]
         /\ pc' = IF obs.links = 1 THEN "generated" ELSE "linking"
    /\ UNCHANGED << player, contracts, rivals, steps >>

\* GameState.__init__ (src 963-968): the start location
StartLocation ==
    /\ pc = "generated"
    /\ LET entry_nodes == {u \in DOMAIN nodes : nodes[u].security_rating <= 2} IN
       IF entry_nodes # {}
       THEN \E start_node \in entry_nodes :
              player' = [player EXCEPT !.current_location = start_node,
                                       !.discovered_nodes = @ \cup {start_node}]
       ELSE UNCHANGED player
    /\ pc' = "top"
    /\ obs' = [obs EXCEPT !.op = "start_location"]
    /\ UNCHANGED << nodes, contracts, rivals, steps >>

\* main_menu choice 1 and network_menu (src 1276-1282), discover_nodes (src
\* 1823-1827): nodes[current_location], a KeyError when there is no such node
OpenNetworkMenu ==
    /\ pc = "top"
    /\ pc' = IF player.current_location \in DOMAIN nodes THEN "network" ELSE "crashed"
    /\ obs' = [obs EXCEPT !.op = "network_menu"]
    /\ UNCHANGED << player, nodes, contracts, rivals, steps >>

NextNet ==
    \/ NetConstruct \/ NetCreateNode \/ NetConnectWithin
    \/ NetAcrossCount \/ NetAcrossLink \/ StartLocation \/ OpenNetworkMenu

SpecNet == InitNet /\ [][NextNet]_vars

\* the connections of the node u, as a set
Connected(net, u) == SeqToSet(net[u].connections)

\* C24: at every point of the generation and after it, b is in
\* a.connections iff a is in b.connections, no connection list holds an id
\* twice, no node is connected to itself, and every id in a connection list
\* names a node of the network.
C24_AdjacencyWellFormed ==
    \A a \in DOMAIN nodes :
        /\ Cardinality(Connected(nodes, a)) = Len(nodes[a].connections)
        /\ a \notin Connected(nodes, a)
        /\ Connected(nodes, a) \subseteq DOMAIN nodes
        /\ \A b \in Connected(nodes, a) : a \in Connected(nodes, b)

\* a generated network where a pair of nodes of the two types was drawn
\* again and linked once: one link between the types out of two or more draws
C24_RepeatedPairLinkedOnce ==
    /\ pc = "generated"
    /\ Cardinality({a \in ByType(First, NodeConfigs[1].network_type) :
                      \E b \in ByType(First, NodeConfigs[2].network_type) :
                          obs.all_nodes[b] \in Connected(nodes, obs.all_nodes[a])}) = 1
    /\ Cardinality({b \in ByType(First, NodeConfigs[2].network_type) :
                      \E a \in ByType(First, NodeConfigs[1].network_type) :
                          obs.all_nodes[a] \in Connected(nodes, obs.all_nodes[b])}) = 1

FewNodesAreReachable ==
    (pc = "generated" /\ \A t \in DOMAIN NodeConfigs : obs.profile.counts[t] < 10)
        => \A u \in DOMAIN nodes : ReachedFrom(nodes, {u}) = DOMAIN nodes

\* C23: two constructions given the same seed store that seed, draw the
\* same stream and produce the same network: the same node ids in the same
\* order, the same attributes and the same connections.
C23_SeedDeterminesNetwork ==
    /\ pc # "streams_differ"
    /\ pc # "new" => obs.seed = obs.profile.seed /\ obs.twin_seed = obs.profile.seed
    /\ pc = "generated" => First = obs.twin

\* two networks generated from seed 7, both storing 7, with no node id in
\* common
C23_SameSeedOtherIds ==
    /\ pc = "generated"
    /\ obs.profile.seed = 7 /\ obs.seed = 7 /\ obs.twin_seed = 7
    /\ DOMAIN nodes \cap DOMAIN obs.twin.nodes = {}

\* the node of a network at each position, ids replaced by positions
ByPosition(g) ==
    LET at == [i \in DOMAIN g.all_nodes |-> g.nodes[g.all_nodes[i]]]
        position(u) == CHOOSE i \in DOMAIN g.all_nodes : g.all_nodes[i] = u
    IN [i \in DOMAIN at |->
          [network_type |-> at[i].network_type,
           security_rating |-> at[i].security_rating,
           connections |-> [k \in DOMAIN at[i].connections |-> position(at[i].connections[k])]]]

\* what does hold: a seed other than 0 is stored, and the two networks are
\* the same but for their node ids, which are the same when the clocks are
SeedDeterminesNetworkUpToIds ==
    /\ (pc # "new" /\ obs.profile.seed # 0) => obs.seed = obs.profile.seed
    /\ pc = "generated" => ByPosition(First) = ByPosition(obs.twin)
    /\ (pc = "generated" /\ obs.profile.clock = 1) => First = obs.twin

\* C27: the game is never ended by an unhandled error; from the main menu
\* on, player.current_location names a node of the network.
C27_LocationNamesANode ==
    /\ pc # "crashed"
    /\ pc \in {"top", "network"} => player.current_location \in DOMAIN nodes

\* the network menu opened in a network without a node of security rating
\* 2 or less: current_location is still "" and the lookup raised KeyError
C27_NoEntryNode ==
    /\ pc = "crashed"
    /\ player.current_location = ""
    /\ \A u \in DOMAIN nodes : nodes[u].security_rating > 2

\* with a node of security rating 2 or less, the location names a node
EntryNodeIsLocation ==
    (pc \in {"top", "network"} /\ \E u \in DOMAIN nodes : nodes[u].security_rating <= 2)
        => /\ player.current_location \in DOMAIN nodes
           /\ nodes[player.current_location].security_rating <= 2

(***************************************************************************)
(* Hardware slots (specification SpecReject)                               *)
(***************************************************************************)
\* the key the resolver reads for the items stored under each purchase key:
\* hardware["CPU"] (src 1502, 1536), ["RAM"] (src 1503, 1625), ["Storage"]
\* (src 1752), ["Cooling"] (src 1449)
ResolverSlot == [Cpu |-> "CPU", Ram |-> "RAM", Storage |-> "Storage", Cooling |-> "Cooling"]

\* the items whose purchase turned the player p into q
Purchased(p, q) ==
    {item \in generate_hardware(p.level) : q # p /\ purchase_hardware(p, item) = q}

\* C26: the hardware always has exactly the four slots CPU, RAM, Storage
\* and Cooling, and after the purchase of an item the bonus the resolver
\* reads for the item's type is the item's.
C26_FourSlotsHoldLastPurchase ==
    /\ DOMAIN player.hardware = DOMAIN StartingHardware
    /\ Cardinality(DOMAIN player.hardware) = 4
    /\ obs.op = "hardware" =>
         \A item \in Purchased(obs.before.p, player) :
             player.hardware[ResolverSlot[item.key]] = item.bonus

\* the Core-i7 bought by a player with the starting hardware: a fifth key
\* "Cpu" holds it and the resolver's "CPU" is still the Basic Processor
C26_FifthSlotAfterCpuPurchase ==
    /\ obs.op = "hardware"
    /\ obs.before.p.hardware = StartingHardware
    /\ HardwareCatalog[1] \in Purchased(obs.before.p, player)
    /\ DOMAIN player.hardware = DOMAIN StartingHardware \cup {"Cpu"}
    /\ player.hardware["Cpu"] = HardwareCatalog[1].bonus
    /\ player.hardware["CPU"] = StartingHardware["CPU"]

\* what does hold: a Storage or Cooling item replaces the component the
\* resolver reads, and no purchase changes the CPU and RAM it reads
StorageAndCoolingReplaced ==
    /\ player.hardware["CPU"] = StartingHardware["CPU"]
    /\ player.hardware["RAM"] = StartingHardware["RAM"]
    /\ DOMAIN StartingHardware \subseteq DOMAIN player.hardware
    /\ obs.op = "hardware" =>
         \A item \in Purchased(obs.before.p, player) :
             item.key \in {"Storage", "Cooling"} =>
                 /\ player.hardware[item.key] = item.bonus
                 /\ DOMAIN player.hardware = DOMAIN obs.before.p.hardware

(***************************************************************************)
(* The per-attempt trace accrual (specification SpecTrace)                 *)
(***************************************************************************)
\* the worlds an executed attempt leaves for the accrual: execute_exploit
\* for a vulnerability whose tool is owned, use_botnet_ddos for a botnet of
\* the list; nothing for the other choices
ExecutedAttempt(w, choice) ==
    IF choice[1] = "exploit"
    THEN LET vuln == w.n.services[choice[2][1]].vulnerabilities[choice[2][2]] IN
         IF vuln.requires_tool # "none" /\ ~HasToolOfType(w.p, vuln.requires_tool)
         THEN {}
         ELSE execute_exploit(w, choice[2])
    ELSE IF choice[1] = "ddos" /\ choice[2] >= 1 /\ choice[2] <= Len(w.p.botnets)
    THEN use_botnet_ddos(w, choice[2] - 1)
    ELSE {}

\* the pass that took the node of w1 (after the action's own effects) to
\* node and the player to p: the accrual, computed from the state the
\* action left, was added once and is positive; the administrator was
\* activated and the trace completed on the accrued value only
AccruedOnce(w1, node, p) ==
    LET trace_increase == TraceIncrease(w1.p, w1.n)
        accrued == w1.n.trace_progress + trace_increase
    IN /\ trace_increase > 0
       /\ node.trace_progress = accrued
       /\ (node.admin_active /\ ~w1.n.admin_active)
            => accrued > ADMIN_ACTIVATE_THRESHOLD * TraceUnit
       /\ (p.heat_level = w1.p.heat_level + TRACE_HEAT_INCREASE)
            <=> accrued >= TRACE_COMPLETE_THRESHOLD * TraceUnit

\* the worlds of an executed attempt that agree with the node afterwards in
\* what the action itself changes
AttemptsLeading(w, choice, node) ==
    {w1 \in ExecutedAttempt(w, choice) :
        /\ w1.n.firewall_strength = node.firewall_strength
        /\ w1.n.services = node.services}

\* C28: after every executed attempt of an attack session (exploit landed,
\* exploit failed, security challenge failed, DDoS) the per-attempt trace
\* accrual is added to trace_progress exactly once, after the action's own
\* trace cost and before the admin-activation and trace-complete checks,
\* and it is strictly positive.
C28_AccrualOncePerAttempt ==
    (obs.op = "pass" /\ ExecutedAttempt(obs.before, obs.choice) # {}) =>
        /\ AttemptsLeading(obs.before, obs.choice, nodes[Here]) # {}
        /\ \E w1 \in AttemptsLeading(obs.before, obs.choice, nodes[Here]) :
             AccruedOnce(w1, nodes[Here], player)

\* an exploit that brought the firewall to 0 or less: the node was
\* compromised in the same pass and the accrual was added all the same,
\* waking the administrator
C28_AccruedAfterWinningExploit ==
    /\ obs.op = "pass" /\ obs.kind = "exploit"
    /\ obs.before.n.firewall_strength > 0
    /\ nodes[Here].firewall_strength <= 0
    /\ nodes[Here].compromised
    /\ nodes[Here].admin_active /\ ~obs.before.n.admin_active
    /\ nodes[Here].trace_progress
         = obs.before.n.trace_progress + TraceIncrease(obs.before.p, obs.before.n)

\* every kind of executed attempt occurs with its accrual
AccruedAfterDdos ==
    ~ /\ obs.op = "pass" /\ obs.kind = "ddos"
      /\ ExecutedAttempt(obs.before, obs.choice) # {}
      /\ nodes[Here].trace_progress
           = obs.before.n.trace_progress + DDOS_TRACE_INCREASE * TraceUnit
             + TraceIncrease(obs.before.p, obs.before.n)

AccruedAfterFailedChallenge ==
    ~ /\ obs.op = "pass" /\ obs.kind = "exploit"
      /\ nodes[Here].trace_progress
           = obs.before.n.trace_progress + 10 * TraceUnit
             + TraceIncrease(obs.before.p, obs.before.n)
      /\ nodes[Here].firewall_strength = obs.before.n.firewall_strength

(***************************************************************************)
(* The start of the investigation (specification SpecTrace)                *)
(***************************************************************************)
\* C29: under_investigation changes from false to true only in a step where
\* the trace of the node under attack completed, with identity_heat, after
\* the event's increase, above INVESTIGATION_START_THRESHOLD.
C29_InvestigationStartsInTraceComplete ==
    [][(~player.under_investigation /\ player'.under_investigation) =>
          /\ nodes'[Here].trace_progress >= TRACE_COMPLETE_THRESHOLD * TraceUnit
          /\ player'.heat_level >= player.heat_level + TRACE_HEAT_INCREASE
          /\ player'.identity_heat = player.identity_heat + TRACE_IDENTITY_HEAT_INCREASE
          /\ player'.identity_heat > INVESTIGATION_START_THRESHOLD]_vars

\* an investigation started by the trace-complete that took identity_heat
\* to one above the threshold
C29_InvestigationStarted ==
    /\ obs.op = "pass"
    /\ ~obs.before.p.under_investigation
    /\ player.under_investigation
    /\ player.identity_heat = INVESTIGATION_START_THRESHOLD + 1
    /\ nodes[Here].trace_progress >= TRACE_COMPLETE_THRESHOLD * TraceUnit

\* a trace-complete that took identity_heat to the threshold exactly, or
\* above it without the draw passing, starts nothing; nor does phishing
NoInvestigationAtThreshold ==
    /\ player.identity_heat <= INVESTIGATION_START_THRESHOLD => ~player.under_investigation
    /\ obs.op = "phishing" => ~player.under_investigation

(***************************************************************************)
(* The investigation from its start to its completion (specification       *)
(* SpecInvFair): a player a trace-complete has just put under              *)
(* investigation goes round the main menu, each iteration running the      *)
(* investigation check, and may launder money in the black market as long  *)
(* as the credits last.  The fairness conditions are the hypothesis that   *)
(* ticks keep occurring: the player comes back from the black market and   *)
(* the main loop runs again.                                               *)
(***************************************************************************)
\* the players handle_trace_complete has just put under investigation, with
\* credits for no, one and two launderings, and a player without investigation
WatchedPlayers ==
    {[NewPlayer EXCEPT !.credits = k * LAUNDER_COST, !.reputation = 40,
                       !.inventory = {"PortScannerPro"},
                       !.under_investigation = u,
                       !.identity_heat = INVESTIGATION_START_THRESHOLD + 1,
                       !.heat_level = TRACE_HEAT_INCREASE] :
        k \in {0, 1, 2}, u \in BOOLEAN}

InitInvFair ==
    /\ player \in WatchedPlayers
    /\ nodes = SampleNetwork(80)
    /\ contracts = << >>
    /\ rivals = << >>
    /\ pc = "top"
    /\ steps = 0
    /\ obs = [op |-> "none", credits0 |-> player.credits, before |-> player]

\* one iteration of main_menu (src 1184-1232): the investigation check of
\* src 1190-1194, then the choice: the black market, or a choice that comes
\* back to the top of the loop
WatchTick ==
    /\ pc = "top"
    /\ \E q \in InvestigationTick(player) :
         /\ player' = q
         /\ obs' = [obs EXCEPT !.op = IF ~player.under_investigation THEN "idle"
                                      ELSE IF q.under_investigation THEN "advance"
                                      ELSE "complete",
                               !.before = player]
    /\ pc' \in {"top", "market"}
    /\ UNCHANGED << nodes, contracts, rivals, steps >>

\* black market, launder_money_menu answered "y" (src 2704-2729)
WatchLaunder ==
    /\ pc = "market"
    /\ player' = launder_money(player)
    /\ obs' = [obs EXCEPT !.op = "launder", !.before = player]
    /\ UNCHANGED << nodes, contracts, rivals, pc, steps >>

\* black market, choice 0: back to the main menu
WatchBack ==
    /\ pc = "market"
    /\ pc' = "top"
    /\ UNCHANGED << player, nodes, contracts, rivals, steps, obs >>

NextInvFair == WatchTick \/ WatchLaunder \/ WatchBack

SpecInvFair ==
    InitInvFair /\ [][NextInvFair]_vars /\ WF_vars(WatchTick) /\ WF_vars(WatchBack)

\* C30: under investigation every tick adds to investigation_progress (the
\* tick that reaches 100 runs Investigation Complete, which resets it), the
\* progress grows only under investigation, it is 0 without investigation
\* and below 100 after every tick; and with ticks that keep occurring and
\* finitely many launderings Investigation Complete eventually fires.
C30_InvestigationRunsToCompletion ==
    /\ [](~player.under_investigation => player.investigation_progress = 0)
    /\ [](player.investigation_progress < TRACE_COMPLETE_THRESHOLD * TraceUnit)
    /\ [][(WatchTick /\ player.under_investigation) =>
            \/ player'.investigation_progress > player.investigation_progress
            \/ obs'.op = "complete" /\ ~player'.under_investigation]_vars
    /\ [][player'.investigation_progress > player.investigation_progress =>
            player.under_investigation]_vars
    /\ (player.under_investigation ~> obs.op = "complete")

\* an investigation that started at 0 with credits for two launderings was
\* completed after both
C30_CompletedAfterTwoLaunderings ==
    /\ obs.op = "complete"
    /\ obs.credits0 = 2 * LAUNDER_COST
    /\ obs.before.credits = 0
    /\ obs.before.under_investigation
    /\ ~player.under_investigation
    /\ player.investigation_progress = 0

\* a laundering takes LAUNDER_INVESTIGATION_REDUCTION off the progress
LaunderingSetsBack ==
    (obs.op = "launder" /\ obs.before.credits >= LAUNDER_COST) =>
        player.investigation_progress
          = Max(0, obs.before.investigation_progress - LAUNDER_INVESTIGATION_REDUCTION * TraceUnit)

(***************************************************************************)
(* The administrator (specification SpecAdmin): attack sessions and        *)
(* phishing on n2, with iterations of the main menu in between, each       *)
(* running update_admin_response on every node.                            *)
(***************************************************************************)
InitAdmin ==
    /\ player = [NewPlayer EXCEPT !.botnets = SessionBotnet,
                                  !.compromised_nodes = {"n1"},
                                  !.discovered_nodes = {"n1", "n2"},
                                  !.current_location = "n2"]
    /\ \E trace \in {0, 39 * TraceUnit}, damage \in EarlierDamage :
         LET net == SampleNetwork(80) IN
         nodes = [net EXCEPT !["n1"] = CompromisedEntry(@),
                             !["n2"] = DamageFirewall(ScannedTarget(@, trace), damage)]
    /\ contracts = << Contract(SampleNetwork(80), "n2", "steal_data", 12) >>
    /\ rivals = << >>
    /\ pc \in {"attack", "social"}
    /\ steps = 0
    /\ obs = [op |-> "none", kind |-> "none", discount |-> 0, undiscounted |-> 0, delta |-> 0,
              before |-> CurrentWorld, choice |-> << "none", 0 >>]

\* back from the network or social menu to main_menu, whose next iteration
\* runs update_admin_response, and into a menu again; an iteration may
\* follow the last pass of a session
AdminTick ==
    /\ pc \in {"network", "social"}
    /\ steps < MaxAttempts + 1
    /\ \E net \in update_admin_response(nodes) :
         /\ nodes' = net
         /\ obs' = [op |-> "tick", kind |-> "tick", discount |-> 0, undiscounted |-> 0,
                    delta |-> net[Here].trace_progress - nodes[Here].trace_progress,
                    before |-> CurrentWorld, choice |-> << "tick", 0 >>]
    /\ pc' \in {"network", "social"}
    /\ steps' = steps + 1
    /\ UNCHANGED << player, contracts, rivals >>

NextAdmin == SessionPass \/ SessionReenter \/ SessionPhishing \/ AdminTick

SpecAdmin == InitAdmin /\ [][NextAdmin]_vars

\* C31: admin_active turns true only in a pass of the attack loop on the
\* node under attack, which was not admin_active and whose trace_progress is
\* above ADMIN_ACTIVATE_THRESHOLD; the step multiplies trace_speed by 1.3;
\* a pass on a node that is admin_active leaves its trace_speed alone; and
\* no step turns admin_active false.
C31_AdminActivatedOnceAndForGood ==
    [][\A n \in DOMAIN nodes :
         /\ nodes[n].admin_active => nodes'[n].admin_active
         /\ (~nodes[n].admin_active /\ nodes'[n].admin_active) =>
              /\ n = Here /\ pc = "attack" /\ obs'.op = "pass"
              /\ nodes'[n].trace_progress > ADMIN_ACTIVATE_THRESHOLD * TraceUnit
              /\ nodes'[n].trace_speed = (nodes[n].trace_speed * 13) \div 10
         /\ (nodes[n].admin_active /\ obs'.op = "pass") =>
              nodes'[n].trace_speed = nodes[n].trace_speed]_vars

\* the administrator of n2, activated in a pass, went through an iteration
\* of the main menu that patched a vulnerability and raised trace_speed by
\* the incident response, and is still active
C31_ActiveThroughAdminResponse ==
    /\ obs.op = "tick"
    /\ ~nodes["n1"].admin_active
    /\ nodes["n2"].admin_active /\ obs.before.n.admin_active
    /\ obs.before.n.trace_speed
         = (SampleNetwork(80)["n2"].trace_speed * 13) \div 10
    /\ nodes["n2"].trace_speed = (obs.before.n.trace_speed * 15) \div 10
    /\ nodes["n2"].services # obs.before.n.services

\* update_admin_response touches the nodes that are admin_active and not
\* compromised, and only their patch levels and trace_speed
AdminResponseOnActiveNodes ==
    obs.op = "tick" =>
        /\ nodes["n1"] = SampleNetwork(80)["n1"] \/ nodes["n1"].compromised
        /\ (~obs.before.n.admin_active \/ obs.before.n.compromised) => nodes[Here] = obs.before.n
        /\ obs.delta = 0

(***************************************************************************)
(* Backdoors (specification SpecReject).                                   *)
(***************************************************************************)
\* C32: a node with backdoor_installed is compromised; install_backdoor on a
\* node that has a backdoor changes nothing; and an installation that fails
\* changes nothing but the node's trace_progress, which grows by 20.
C32_BackdoorOnlyOnCompromised ==
    /\ \A n \in DOMAIN nodes : nodes[n].backdoor_installed => nodes[n].compromised
    /\ obs.op = "backdoor" =>
         LET was == obs.before.n[Here] IN
         /\ was.backdoor_installed =>
              /\ player = obs.before.p
              /\ nodes = obs.before.n
         /\ (was.compromised /\ ~was.backdoor_installed /\ ~nodes[Here].backdoor_installed) =>
              /\ player = obs.before.p
              /\ nodes = [obs.before.n EXCEPT
                            ![Here].trace_progress = @ + 20 * TraceUnit]

\* install_backdoor was called on n1 a second time, after the first call
\* had installed the backdoor
C32_SecondInstallAfterBackdoor ==
    /\ obs.op = "backdoor"
    /\ Here = "n1"
    /\ obs.before.n["n1"].backdoor_installed
    /\ nodes["n1"].backdoor_installed /\ nodes["n1"].compromised
    /\ steps = MaxPurchases

\* violated: a failed installation is among the steps
InstallNeverFails ==
    ~(/\ obs.op = "backdoor"
      /\ obs.before.n[Here].compromised
      /\ ~nodes[Here].backdoor_installed
      /\ nodes[Here].trace_progress = obs.before.n[Here].trace_progress + 20 * TraceUnit)

\* a node with a backdoor is compromised, in every specification
BackdoorImpliesCompromised ==
    \A n \in DOMAIN nodes : nodes[n].backdoor_installed => nodes[n].compromised

(***************************************************************************)
(* The order of a node's states (specification Spec).                      *)
(***************************************************************************)
\* C33: a node the player has compromised was scanned before, so that at
\* least one of its vulnerabilities is discovered; no sequence of phishing
\* or credential use followed by opening an attack compromises a node that
\* is still unscanned.
C33_CompromisedAfterScan ==
    \A n \in player.compromised_nodes :
        nodes[n].compromised /\ nodes[n].discovered_vulns # {}

\* the entry node, never scanned and with no trace of an attack pass, is
\* compromised after phishing took its firewall to zero or below and the
\* attack was opened
C33_CompromisedUnscanned ==
    \E n \in player.compromised_nodes :
        /\ nodes[n].compromised
        /\ nodes[n].discovered_vulns = {}
        /\ nodes[n].firewall_strength <= 0
        /\ \E e \in DOMAIN nodes[n].employees : nodes[n].employees[e].compromised
        /\ nodes[n].trace_progress = PHISHING_SUCCESS_TRACE * TraceUnit

(***************************************************************************)
(* The payout of a compromise (specification SpecPayout): attack_node,     *)
(* install_backdoor and phishing_campaign on n2, whose firewall earlier    *)
(* sessions brought down to 10, with three contracts open.                 *)
(***************************************************************************)
\* ContractGenerator.generate_contract: objectives and reward_mult, in tenths
RewardMult ==
    [steal_data |-> 12, install_backdoor |-> 15, sabotage |-> 13,
     reconnaissance |-> 8, destroy_evidence |-> 16, plant_evidence |-> 17,
     exfiltrate_employee_data |-> 14]

Objectives == DOMAIN RewardMult

\* the objectives compromise_node completes
CompromiseObjectives == {"steal_data", "install_backdoor", "sabotage"}

InitPayout ==
    /\ player = [NewPlayer EXCEPT !.compromised_nodes = {"n1"},
                                  !.discovered_nodes = {"n1", "n2"},
                                  !.current_location = "n2"]
    /\ LET net == SampleNetwork(80) IN
       /\ nodes = [net EXCEPT !["n1"] = CompromisedEntry(@),
                              !["n2"] = DamageFirewall(ScannedTarget(@, 0), 150)]
       /\ \E o1 \in Objectives, o2 \in {"sabotage", "reconnaissance"} :
            contracts = << Contract(net, "n2", o1, RewardMult[o1]),
                           Contract(net, "n2", o2, RewardMult[o2]),
                           Contract(net, "n3", "steal_data", RewardMult["steal_data"]) >>
    /\ rivals = << >>
    /\ pc \in {"network", "social"}
    /\ steps = 0
    /\ obs = [op |-> "none", ran |-> FALSE, before |-> CurrentWorld]

\* network menu, choice 2: attack_node up to its first prompt or, the loop
\* skipped, to its return; ran says whether compromise_node was called
PayoutEnter ==
    /\ pc = "network"
    /\ Budget
    /\ LET node == nodes[Here]
           returns == node.compromised /\ ~node.backdoor_installed
       IN
       IF returns \/ AttackLoopCondition(node)
       THEN /\ NoChange
            /\ pc' = (IF ~returns /\ node.discovered_vulns # {} THEN "attack" ELSE "network")
            /\ obs' = [op |-> "enter", ran |-> FALSE, before |-> CurrentWorld]
       ELSE /\ \E w \in AfterAttackLoop(CurrentWorld, Here) : Commit(w)
            /\ pc' = "network"
            /\ obs' = [op |-> "enter", ran |-> node.firewall_strength <= 0,
                       before |-> CurrentWorld]
    /\ UNCHANGED rivals
    /\ Count

\* one pass of the attack loop
PayoutPass ==
    /\ pc = "attack"
    /\ Budget
    /\ \E choice \in AttackChoices(CurrentWorld) :
         \E w \in AttackPass(CurrentWorld, Here, choice) :
           /\ Commit(World(w.p, w.n, w.c))
           /\ pc' = (IF w.ctl = "loop" THEN "attack" ELSE "network")
           /\ obs' = [op |-> "pass",
                      ran |-> w.ctl = "exit" /\ w.n.firewall_strength <= 0,
                      before |-> CurrentWorld]
    /\ UNCHANGED rivals
    /\ Count

\* network menu, choice 3
PayoutBackdoor ==
    /\ pc = "network"
    /\ Budget
    /\ \E w \in install_backdoor(CurrentWorld) : Commit(w)
    /\ obs' = [op |-> "backdoor", ran |-> FALSE, before |-> CurrentWorld]
    /\ UNCHANGED <<rivals, pc>>
    /\ Count

\* social_engineering_menu, choice 1, and back to the network menu
PayoutPhishing ==
    /\ pc = "social"
    /\ Budget
    /\ \E w \in phishing_campaign(CurrentWorld) : Commit(w)
    /\ obs' = [op |-> "phishing", ran |-> FALSE, before |-> CurrentWorld]
    /\ pc' = "network"
    /\ UNCHANGED rivals
    /\ Count

NextPayout == PayoutEnter \/ PayoutPass \/ PayoutBackdoor \/ PayoutPhishing

SpecPayout == InitPayout /\ [][NextPayout]_vars

\* the contracts a call of compromise_node on the current node pays
Paying(cs) ==
    {i \in DOMAIN cs : /\ cs[i].target_node_uid = Here
                       /\ ~cs[i].completed
                       /\ cs[i].objective \in CompromiseObjectives}

\* data_value * Storage bonus of the node before the step
ExtractedValue == (obs.before.n.data_value * obs.before.p.hardware.Storage) \div 10

\* C34: a compromise completes exactly the contracts that were open, target
\* the node and have objective steal_data, install_backdoor or sabotage, and
\* pays their rewards and reputation; a contract already completed stays
\* completed and is not paid again; a step without a compromise leaves the
\* contracts as they are.
C34_CompromisePaysOpenContractsOnce ==
    LET paying == Paying(obs.before.c)
        rewards == [i \in DOMAIN contracts |-> obs.before.c[i].reward]
        reps == [i \in DOMAIN contracts |-> obs.before.c[i].reputation_change]
    IN
    /\ Len(contracts) = Len(obs.before.c)
    /\ \A i \in DOMAIN contracts :
         /\ contracts[i].completed = (obs.before.c[i].completed \/ (obs.ran /\ i \in paying))
         /\ [contracts[i] EXCEPT !.completed = FALSE]
              = [obs.before.c[i] EXCEPT !.completed = FALSE]
    /\ obs.ran =>
         /\ player.credits = obs.before.p.credits + ExtractedValue + SumOver(paying, rewards)
         /\ player.reputation = obs.before.p.reputation
                                  + obs.before.n.security_rating * 10 + SumOver(paying, reps)

\* n2 was compromised a second time; its first contract, completed and paid
\* by the first compromise, was not paid again, and the second, being a
\* reconnaissance, is still open
C34_CompletedContractNotPaidAgain ==
    /\ obs.ran
    /\ obs.before.c[1].completed /\ contracts[1].completed
    /\ obs.before.c[1].target_node_uid = Here
    /\ contracts[2].objective = "reconnaissance" /\ ~contracts[2].completed
    /\ ~contracts[3].completed
    /\ player.credits = obs.before.p.credits + ExtractedValue

\* C37: compromise_node is called on a node that is not yet compromised, so
\* that the payout of a node is granted once; attack_node on a compromised
\* node, with or without a backdoor, leaves credits, experience and
\* reputation as they are.
C37_PayoutOncePerNode ==
    /\ obs.ran => ~obs.before.n.compromised
    /\ (obs.op = "enter" /\ obs.before.n.compromised) =>
         /\ player.credits = obs.before.p.credits
         /\ player.experience = obs.before.p.experience
         /\ player.level = obs.before.p.level
         /\ player.reputation = obs.before.p.reputation

\* attack_node on n2, compromised and with a backdoor, paid the node's data
\* value and reputation again
C37_PaidAgainThroughBackdoor ==
    /\ obs.op = "enter" /\ obs.ran
    /\ obs.before.n.compromised /\ obs.before.n.backdoor_installed
    /\ Here \in obs.before.p.compromised_nodes
    /\ player.credits = obs.before.p.credits + ExtractedValue
    /\ ExtractedValue > 0
    /\ player.reputation = obs.before.p.reputation + obs.before.n.security_rating * 10

\* attack_node on a compromised node without a backdoor returns at once
ReturnsWithoutBackdoor ==
    (obs.op = "enter" /\ obs.before.n.compromised /\ ~obs.before.n.backdoor_installed) =>
        /\ ~obs.ran
        /\ CurrentWorld = obs.before

(***************************************************************************)
(* The services of a node (specification SpecPorts): the loop of           *)
(* _create_node over service_count templates, used_ports and the offset    *)
(* added to a port that is already used.                                   *)
(***************************************************************************)
\* generate_network: the ports of service_templates, in order
ServiceTemplatePorts ==
    << 80, 80, 22, 3306, 5432, 21, 80, 8080, 6379, 27017, 9200, 25, 389, 1194 >>

\* draws of random.randint(3, 8) for service_count
ServiceCounts == {3, 4}

\* draws of random.randint(1, 1000) for the offset: the ends of the range
\* and the distance between the ports of ProFTPD and Apache
PortOffsets == {1, 59, 1000}

InitPorts ==
    /\ player = "none" /\ nodes = "none" /\ contracts = << >> /\ rivals = << >>
    /\ pc = "services"
    /\ steps = 0
    /\ \E service_count \in ServiceCounts :
         obs = [service_count |-> service_count, services |-> << >>, used_ports |-> {},
                offsets |-> 0]

\* one iteration of the loop over range(service_count) (src 572-578): the
\* port of the service appended
ServicePort(sport, used_ports) ==
    IF sport \in used_ports THEN {sport + offset : offset \in PortOffsets} ELSE {sport}

CreateService ==
    /\ pc = "services"
    /\ Len(obs.services) < obs.service_count
    /\ \E template \in DOMAIN ServiceTemplatePorts :
         \E sport \in ServicePort(ServiceTemplatePorts[template], obs.used_ports) :
           obs' = [obs EXCEPT !.services = Append(@, [template |-> template, port |-> sport]),
                              !.used_ports = @ \cup {sport},
                              !.offsets = @ + (IF sport = ServiceTemplatePorts[template]
                                               THEN 0 ELSE 1)]
    /\ UNCHANGED <<player, nodes, contracts, rivals, pc, steps>>

\* the loop is over: the node is built with the services
NodeCreated ==
    /\ pc = "services"
    /\ Len(obs.services) = obs.service_count
    /\ pc' = "created"
    /\ UNCHANGED <<player, nodes, contracts, rivals, steps, obs>>

NextPorts == CreateService \/ NodeCreated

SpecPorts == InitPorts /\ [][NextPorts]_vars

\* C35: the services of a generated node have pairwise distinct ports,
\* whatever templates and offsets were drawn.
C35_PortsPairwiseDistinct ==
    pc = "created" =>
        \A i, j \in DOMAIN obs.services :
            i # j => obs.services[i].port # obs.services[j].port

\* a node of three services, two of them on one port: the third service drew
\* a template whose port was used and the offset took it to the port of the
\* first service
C35_TwoServicesOnOnePort ==
    /\ pc = "created"
    /\ Len(obs.services) = 3
    /\ obs.offsets = 1
    /\ obs.services[3].port # ServiceTemplatePorts[obs.services[3].template]
    /\ obs.services[3].port = obs.services[1].port
    /\ obs.services[2].port # obs.services[1].port

\* a port that is not used when drawn is kept, and used_ports holds the
\* ports of the services
UsedPortsAreServicePorts ==
    obs.used_ports = {obs.services[i].port : i \in DOMAIN obs.services}

(***************************************************************************)
(* The life of a world event (specification SpecEventsFair): the ticks of  *)
(* SpecEvents with every active event followed from the tick that added it *)
(* to the tick that removes it; the main loop keeps coming round.          *)
(***************************************************************************)
\* names for the events being followed, one more than can be active, so
\* that a new event never takes the name of one the same tick removed
EventIds == 1..(MAX_ACTIVE_EVENTS + 1)

InitEventsFair ==
    /\ player = NewPlayer
    /\ nodes = SampleNetwork(80)
    /\ contracts = << >>
    /\ rivals = << >>
    /\ pc = "tick_events"
    /\ steps = 0
    /\ obs = [op |-> "none", watch |-> << >>, expired |-> << >>, before |-> << >>]

\* one main-loop iteration's call of update_dynamic_events (src 1188); watch
\* holds, for every event an earlier tick added, the duration it was drawn
\* with and the ticks it has been through, expired those whose ticks have
\* reached their duration in this tick
EventsWatchTick ==
    /\ pc = "tick_events"
    /\ \E ev \in update_dynamic_events(player.active_events) :
         LET ticked == [i \in DOMAIN obs.watch |-> [obs.watch[i] EXCEPT !.age = @ + 1]]
             remaining == SelectSeq(ticked, LAMBDA g : g.age < g.drawn)
             added == Len(ev) > Len(AgeEvents(player.active_events))
             new == [id |-> CHOOSE i \in EventIds :
                              \A k \in DOMAIN ticked : ticked[k].id # i,
                     etype |-> ev[Len(ev)].etype,
                     drawn |-> ev[Len(ev)].duration,
                     age |-> 0]
         IN /\ player' = [player EXCEPT !.active_events = ev]
            /\ obs' = [op |-> "tick",
                       watch |-> IF added THEN Append(remaining, new) ELSE remaining,
                       expired |-> SelectSeq(ticked, LAMBDA g : g.age >= g.drawn),
                       before |-> player.active_events]
    /\ UNCHANGED <<nodes, contracts, rivals, pc, steps>>

NextEventsFair == EventsWatchTick

SpecEventsFair == InitEventsFair /\ [][NextEventsFair]_vars /\ WF_vars(EventsWatchTick)

\* the ids of the events being followed
ActiveIds == {obs.watch[i].id : i \in DOMAIN obs.watch}

\* C36: every tick takes exactly 1 from the duration of every active event
\* and removes exactly the events whose duration reaches 0, however many,
\* keeping the others in order; an event drawn with duration d is active
\* for exactly d ticks; no event with duration <= 0 stays active; and every
\* event expires in the end.
C36_EventsCountDownAndExpire ==
    /\ [](/\ Len(player.active_events) = Len(obs.watch)
          /\ \A i \in DOMAIN player.active_events :
               /\ player.active_events[i].etype = obs.watch[i].etype
               /\ player.active_events[i].duration = obs.watch[i].drawn - obs.watch[i].age
               /\ player.active_events[i].duration > 0)
    /\ [](obs.op = "tick" =>
            LET kept == SelectSeq(obs.before, LAMBDA e : e.duration > 1) IN
            /\ Len(obs.expired) = Len(obs.before) - Len(kept)
            /\ Len(player.active_events) >= Len(kept)
            /\ \A i \in DOMAIN kept :
                 player.active_events[i] = [kept[i] EXCEPT !.duration = @ - 1])
    /\ \A id \in EventIds : (id \in ActiveIds) ~> (id \notin ActiveIds)

\* two events of different durations, added in different ticks, expired in
\* the same tick, each after as many ticks as its duration, and the tick
\* added a new event to the emptied list
C36_TwoEventsExpiredInOneTick ==
    /\ obs.op = "tick"
    /\ Len(obs.before) = 2
    /\ Len(obs.expired) = 2
    /\ obs.expired[1].drawn > obs.expired[2].drawn
    /\ \A i \in 1..2 : obs.expired[i].age = obs.expired[i].drawn
    /\ Len(player.active_events) = 1
    /\ obs.watch[1].age = 0

(***************************************************************************)
(* Spending (specification SpecCredits): the purchases and attacks of      *)
(* SpecReject, the upkeep of botnets, and a trace on n2 about to complete, *)
(* from players with credits at and around the prices.                     *)
(***************************************************************************)
\* GameInterface.maintain_botnet (src 2212-2245) on botnet idx
maintain_botnet(p, idx) ==
    LET botnet == p.botnets[idx] IN
    IF p.credits < botnet.maintenance_cost THEN p
    ELSE [p EXCEPT !.credits = @ - botnet.maintenance_cost,
                   !.botnets[idx].detected_nodes = Max(0, @ - (botnet.size * 3) \div 10),
                   !.botnets[idx].quality = Min(100, @ + 5)]

\* GameInterface.expand_botnet (src 2247-2286) on botnet idx, drawn being
\* random.randint(20, 50)
expand_botnet(p, idx, drawn) ==
    LET botnet == p.botnets[idx]
        expansion_cost == botnet.size * 10
        size == botnet.size + drawn + p.skills.botnet_management * 5
    IN IF p.credits < expansion_cost THEN p
       ELSE [p EXCEPT !.credits = @ - expansion_cost,
                      !.botnets[idx].size = size,
                      !.botnets[idx].ddos_power = (size * botnet.quality * 5) \div 1000,
                      !.botnets[idx].maintenance_cost = size * 2]

InitCredits ==
    /\ player \in RejectPlayers
    /\ \E trace \in {39 * TraceUnit, 97 * TraceUnit} :
         LET net == SampleNetwork(80) IN
         nodes = [net EXCEPT !["n1"] = CompromisedEntry(@),
                             !["n2"] = ScannedTarget(@, trace)]
    /\ contracts = << >>
    /\ rivals = << >>
    /\ pc \in {"market", "botnet", "network"}
    /\ steps = 0
    /\ obs = [op |-> "none", rejected |-> FALSE, before |-> [p |-> player, n |-> nodes]]

\* botnet menu, choice 2
ShopMaintain ==
    \E idx \in DOMAIN player.botnets :
      Purchase("botnet", "maintain",
               player.credits < player.botnets[idx].maintenance_cost,
               maintain_botnet(player, idx))

\* botnet menu, choice 3
ShopExpand ==
    \E idx \in DOMAIN player.botnets, drawn \in {20, 50} :
      Purchase("botnet", "expand",
               player.credits < player.botnets[idx].size * 10,
               expand_botnet(player, idx, drawn))

NextCredits ==
    \/ ShopTools
    \/ ShopExploits
    \/ ShopHardware
    \/ ShopProxy
    \/ ShopLaunder
    \/ ShopBotnet
    \/ ShopMaintain
    \/ ShopExpand
    \/ RejectBackdoor
    \/ RejectAttackEnter
    \/ RejectExploit

SpecCredits == InitCredits /\ [][NextCredits]_vars

\* C38: player.credits is never negative: every purchase is refused when the
\* credits are short of the price, and the trace penalty stops at 0.
C38_CreditsNeverNegative ==
    /\ player.credits >= 0
    /\ obs.rejected => player.credits = obs.before.p.credits

\* a completed trace took, from a player with fewer credits than the penalty
\* drawn, all the credits and no more
C38_PenaltyStopsAtZero ==
    /\ obs.op = "attack_exploit"
    /\ player.heat_level = obs.before.p.heat_level + TRACE_HEAT_INCREASE
    /\ obs.before.p.credits > TRACE_PENALTY_MIN
    /\ obs.before.p.credits < TRACE_PENALTY_MAX
    /\ player.credits = 0

\* violated: a purchase at exactly the price leaves no credits
NoPurchaseAtThePrice ==
    ~(/\ obs.op \in {"botnet", "expand", "maintain", "proxy", "tool", "hardware"}
      /\ ~obs.rejected
      /\ obs.before.p.credits > 0
      /\ player.credits = 0)

\* violated: a botnet is expanded and maintained
NoUpkeep == ~(obs.op \in {"expand", "maintain"} /\ ~obs.rejected)

(***************************************************************************)
(* Experience left over by the level-up check (specification Spec).        *)
(***************************************************************************)
\* C39: once an operation that grants experience has finished, the
\* experience is below the player's level times EXP_PER_LEVEL_MULTIPLIER:
\* the level-up check has processed every grant.
C39_ExperienceBelowNextLevel ==
    player.experience < player.level * EXP_PER_LEVEL_MULTIPLIER

\* a player of level 1 back at the social engineering menu with 100
\* experience or more: the grants of osint_search and social_media_recon
\* came on top of a phishing success and no level-up was offered
C39_GrantLeftUnprocessed ==
    /\ pc = "social"
    /\ player.level = STARTING_LEVEL
    /\ player.experience >= STARTING_LEVEL * EXP_PER_LEVEL_MULTIPLIER
    /\ player.skills = NewPlayer.skills
    /\ \E e \in DOMAIN nodes[Here].employees : nodes[Here].employees[e].compromised

(***************************************************************************)
(* Termination of an attack session (specification SpecAttackFair): the    *)
(* loop of attack_node on n2, of which the scan found the buffer overflow  *)
(* only, every prompt answered, clear-traces chosen at most MaxClears      *)
(* times, by a player with and without the exploit framework it needs.     *)
(***************************************************************************)
MaxClears == 1

InitAttackFair ==
    /\ \E inv \in {{}, {CHOOSE t \in ExploitFrameworks : TRUE}} :
         player = [NewPlayer EXCEPT !.inventory = inv,
                                    !.compromised_nodes = {"n1"},
                                    !.discovered_nodes = {"n1", "n2"},
                                    !.current_location = "n2"]
    /\ \E trace \in {94 * TraceUnit}, damage \in EarlierDamage :
         LET net == SampleNetwork(80) IN
         nodes = [net EXCEPT !["n1"] = CompromisedEntry(@),
                             !["n2"] = [DamageFirewall(ScannedTarget(@, trace), damage)
                                          EXCEPT !.discovered_vulns = {<< 1, 2 >>}]]
    /\ contracts = << >>
    /\ rivals = << >>
    /\ pc = "attack"
    /\ steps = 0
    /\ obs = [op |-> "none", kind |-> "none", rejected |-> FALSE, prompts |-> 0,
              before |-> CurrentWorld]

\* one pass of the loop of attack_node, from the prompt to the next prompt or
\* to the return; prompts counts the prompts answered, modulo 2, and steps
\* the choices of clear-traces; rejected says that the exploit chosen needs
\* a tool the player lacks (src 1424-1429)
FairPass ==
    /\ pc = "attack"
    /\ \E choice \in AttackChoices(CurrentWorld) :
         /\ choice[1] = "clear" => steps < MaxClears
         /\ \E w \in AttackPass(CurrentWorld, Here, choice) :
              /\ Commit(World(w.p, w.n, w.c))
              /\ pc' = (IF w.ctl = "loop" THEN "attack" ELSE "network")
              /\ obs' = [op |-> "pass", kind |-> choice[1],
                         rejected |->
                           /\ choice[1] = "exploit"
                           /\ LET vuln == nodes[Here].services[choice[2][1]]
                                            .vulnerabilities[choice[2][2]]
                              IN vuln.requires_tool # "none"
                                   /\ ~HasToolOfType(player, vuln.requires_tool),
                         prompts |-> (obs.prompts + 1) % 2,
                         before |-> CurrentWorld]
         /\ steps' = steps + (IF choice[1] = "clear" THEN 1 ELSE 0)
    /\ UNCHANGED rivals

NextAttackFair == FairPass

SpecAttackFair == InitAttackFair /\ [][NextAttackFair]_vars /\ WF_vars(FairPass)

OtherPassesProgress ==
    (obs.op = "pass" /\ ~obs.rejected /\ obs.kind \notin {"clear", "abort"}) =>
        \/ nodes[Here].trace_progress > obs.before.n.trace_progress
        \/ nodes[Here].firewall_strength < obs.before.n.firewall_strength
        \/ pc # "attack"

\* the session terminates when the choice of an exploit whose tool is
\* missing is not repeated for ever
TerminatesUnlessToolMissing == (<>[](~obs.rejected)) => <>(pc # "attack")

=============================================================================
